---- MODULE Spec2Model ----
(***************************************************************************)
(* A model of the file-processing toolkit: the Validator (validateFile),   *)
(* the upload surface (FileUpload), and the image, PDF and audio tools.    *)
(* Strings are sequences of one-character strings, so that toLowerCase,    *)
(* includes and endsWith are computed as the code computes them.           *)
(***************************************************************************)
EXTENDS Integers, Sequences, FiniteSets, TLC

(***************************************************************************)
(* Bounds of the model.                                                    *)
(***************************************************************************)
\* the longest batch of files dropped on, or picked in, the upload surface
MaxBatch == 3
\* the number of batches one behaviour of the upload surface handles
MaxBatches == 2

(***************************************************************************)
(* Strings.                                                                *)
(***************************************************************************)
\* String.prototype.toLowerCase on one character of the model's alphabet
LowerChar(c) ==
  CASE c = "P" -> "p"
    [] c = "N" -> "n"
    [] c = "G" -> "g"
    [] c = "I" -> "i"
    [] c = "M" -> "m"
    [] c = "A" -> "a"
    [] c = "E" -> "e"
    [] OTHER -> c

toLowerCase(s) == [k \in 1..Len(s) |-> LowerChar(s[k])]

\* s.includes(t): t occurs in s as a contiguous substring
includes(s, t) ==
  \E k \in 1..(Len(s) - Len(t) + 1) : SubSeq(s, k, k + Len(t) - 1) = t

\* s.endsWith(t)
endsWith(s, t) ==
  /\ Len(t) <= Len(s)
  /\ SubSeq(s, Len(s) - Len(t) + 1, Len(s)) = t

\* s.startsWith(t)
startsWith(s, t) ==
  /\ Len(t) <= Len(s)
  /\ SubSeq(s, 1, Len(t)) = t

\* Array.prototype.join(sep) on an array of strings
RECURSIVE join(_, _)
join(arr, sep) ==
  IF Len(arr) = 0 THEN << >>
  ELSE IF Len(arr) = 1 THEN arr[1]
  ELSE arr[1] \o sep \o join(Tail(arr), sep)

\* the strings the model draws from
S_ImagePng == <<"i","m","a","g","e","/","p","n","g">>
S_ImagePngUpper == <<"I","M","A","G","E","/","P","N","G">>
S_ImagePngs == <<"i","m","a","g","e","/","p","n","g","s">>
S_ImageJpeg == <<"i","m","a","g","e","/","j","p","e","g">>
S_TextPlain == <<"t","e","x","t","/","p","l","a","i","n">>
S_DotPng == <<".","p","n","g">>
S_DotPngUpper == <<".","P","N","G">>
S_Txt == <<"t","x","t">>
S_DotTxt == <<".","t","x","t">>
S_Empty == << >>
N_APng == <<"a",".","p","n","g">>
N_BPngUpper == <<"b",".","P","N","G">>
N_CTxt == <<"c",".","t","x","t">>
N_Dpng == <<"d","p","n","g">>
N_EPngTxt == <<"e",".","p","n","g",".","t","x","t">>

(***************************************************************************)
(* The Validator.                                                          *)
(***************************************************************************)
MAX_FILE_SIZE == 10 * 1024 * 1024

MiB == 1024 * 1024

\* Number-to-string conversion of a natural number, as a template literal does it
RECURSIVE DecimalString(_)
DecimalString(n) ==
  LET digit == <<"0","1","2","3","4","5","6","7","8","9">>[(n % 10) + 1]
  IN IF n < 10 THEN <<digit>> ELSE DecimalString(n \div 10) \o <<digit>>

\* `File size exceeds ${maxSize / (1024 * 1024)}MB limit` (the model's maxSize
\* values are whole numbers of MiB, so the quotient prints as an integer)
SizeError(maxSize) ==
  <<"File size exceeds ">> \o DecimalString(maxSize \div MiB) \o <<"MB limit">>

\* `File type not supported. Allowed types: ${allowedTypes.join(", ")}`
TypeError(allowedTypes) ==
  <<"File type not supported. Allowed types: ">> \o join(allowedTypes, <<",", " ">>)

\* allowedTypes.some((type) => fileType.includes(type.toLowerCase()))
MimeMatches(file, allowedTypes) ==
  \E k \in 1..Len(allowedTypes) :
    includes(toLowerCase(file.type), toLowerCase(allowedTypes[k]))

\* type.startsWith(".") ? type : `.${type}`
ExtensionOf(type) == IF startsWith(type, <<".">>) THEN type ELSE <<".">> \o type

\* allowedTypes.some((type) => file.name.toLowerCase().endsWith(extension.toLowerCase()))
ExtensionMatches(file, allowedTypes) ==
  \E k \in 1..Len(allowedTypes) :
    endsWith(toLowerCase(file.name), toLowerCase(ExtensionOf(allowedTypes[k])))

isValidType(file, allowedTypes) ==
  MimeMatches(file, allowedTypes) \/ ExtensionMatches(file, allowedTypes)

\* mutant: the type is checked before the size
validateFileTypeFirst(file, allowedTypes, maxSize) ==
  IF ~isValidType(file, allowedTypes)
  THEN [valid |-> FALSE, error |-> TypeError(allowedTypes)]
  ELSE IF file.size > maxSize
  THEN [valid |-> FALSE, error |-> SizeError(maxSize)]
  ELSE [valid |-> TRUE]

\* mutant: a type rejection carries no message
validateFileNoMessage(file, allowedTypes, maxSize) ==
  IF file.size > maxSize
  THEN [valid |-> FALSE, error |-> SizeError(maxSize)]
  ELSE IF ~isValidType(file, allowedTypes)
  THEN [valid |-> FALSE]
  ELSE [valid |-> TRUE]

\* mutant: the size is not looked at
validateFileNoSizeCheck(file, allowedTypes, maxSize) ==
  IF ~isValidType(file, allowedTypes)
  THEN [valid |-> FALSE, error |-> TypeError(allowedTypes)]
  ELSE [valid |-> TRUE]

validateFile(file, allowedTypes, maxSize) ==
  IF file.size > maxSize
  THEN [valid |-> FALSE, error |-> SizeError(maxSize)]
  ELSE IF ~isValidType(file, allowedTypes)
  THEN [valid |-> FALSE, error |-> TypeError(allowedTypes)]
  ELSE [valid |-> TRUE]

VARIABLES
  vcall,      \* the arguments of the validateFile call under check
  vresult     \* what validateFile returned, or NoResult before the call

\* the value of vresult before validateFile has returned
NoResult == [returned |-> FALSE]

validateVars == <<vcall, vresult>>

FileTypes == {S_Empty, S_ImagePng, S_ImagePngs, S_TextPlain}
FileNames == {N_APng, N_BPngUpper, N_CTxt, N_Dpng, N_EPngTxt}
MaxSizes == {MiB, MAX_FILE_SIZE}
FileSizesFor(maxSize) == {0, maxSize - 1, maxSize, maxSize + 1, 2 * maxSize}
AllowedLists ==
  { << >>, <<S_ImagePng>>, <<S_ImagePngUpper>>, <<S_DotPng>>, <<S_DotPngUpper>>,
    <<S_Txt>>, <<S_ImageJpeg, S_DotTxt>>, <<S_ImagePng, S_DotPng>> }

ValidateInit ==
  /\ \E t \in FileTypes, n \in FileNames, m \in MaxSizes, a \in AllowedLists :
       \E s \in FileSizesFor(m) :
         vcall = [file |-> [name |-> n, type |-> t, size |-> s],
                  allowedTypes |-> a, maxSize |-> m]
  /\ vresult = NoResult

ValidateCall ==
  /\ vresult = NoResult
  /\ vresult' = validateFile(vcall.file, vcall.allowedTypes, vcall.maxSize)
  /\ UNCHANGED vcall

(***************************************************************************)
(* The upload surface: FileUpload.                                         *)
(***************************************************************************)
VARIABLES
  upPool,         \* the files the user has at hand
  accept,         \* prop: the allowed-type list
  maxSize,        \* prop: the size bound
  hasOnError,     \* prop: whether the caller supplied onError
  disabled,       \* prop
  upProcessing,   \* FileUpload's isProcessing state
  fileArray,      \* validateAndProcessFiles: Array.from(files)
  idx,            \* validateAndProcessFiles: the loop index i (0-based)
  validFiles,     \* validateAndProcessFiles: validFiles
  errors,         \* validateAndProcessFiles: errors
  validated,      \* observation: the files handed to validateFile, in call order
  selectedCalls,  \* observation: the arguments of the onFilesSelected calls
  errorCalls,     \* observation: the arguments of the onError calls
  batchNo         \* the number of batches started so far

uploadVars ==
  <<upPool, accept, maxSize, hasOnError, disabled, upProcessing, fileArray, idx,
    validFiles, errors, validated, selectedCalls, errorCalls, batchNo>>

\* the files a user may drop: valid and invalid ones for the accept lists below
UploadFiles ==
  { [name |-> N_APng, type |-> S_ImagePng, size |-> 5],
    [name |-> N_CTxt, type |-> S_TextPlain, size |-> 7],
    [name |-> N_BPngUpper, type |-> S_Empty, size |-> 3],
    [name |-> N_Dpng, type |-> S_ImagePng, size |-> MAX_FILE_SIZE + 1] }

UploadAccepts == { << >>, <<S_ImagePng, S_DotPng>>, <<S_DotTxt>> }

Batches == UNION { [1..n -> upPool] : n \in 1..MaxBatch }

UploadInit ==
  /\ upPool = UploadFiles
  /\ accept \in UploadAccepts
  /\ maxSize = MAX_FILE_SIZE
  /\ hasOnError \in BOOLEAN
  /\ disabled \in BOOLEAN
  /\ upProcessing = FALSE
  /\ fileArray = << >>
  /\ idx = 0
  /\ validFiles = << >>
  /\ errors = << >>
  /\ validated = << >>
  /\ selectedCalls = << >>
  /\ errorCalls = << >>
  /\ batchNo = 0

\* `${file.name}: ${validation.error}`
ErrorLine(file, validation) == file.name \o <<":", " ">> \o validation.error

\* mutant: every file is pushed to validFiles, the rejected ones too
LoopBodyKeepsRejected(files, i) ==
  LET file == files[i + 1]
      validation == validateFile(file, accept, maxSize)
  IN /\ validated' = Append(validated, file)
     /\ validFiles' = Append(validFiles, file)
     /\ IF validation.valid
        THEN UNCHANGED errors
        ELSE errors' = Append(errors, ErrorLine(file, validation))

\* one pass of the loop body for fileArray[i] (0-based i), up to its await
LoopBody(files, i) ==
  LET file == files[i + 1]
      validation == validateFile(file, accept, maxSize)
  IN /\ validated' = Append(validated, file)
     /\ IF validation.valid
        THEN /\ validFiles' = Append(validFiles, file)
             /\ UNCHANGED errors
        ELSE /\ errors' = Append(errors, ErrorLine(file, validation))
             /\ UNCHANGED validFiles

\* validateAndProcessFiles up to its first await: the state resets and the first
\* pass of the loop
validateAndProcessFiles(files) ==
  /\ fileArray' = files
  /\ upProcessing' = TRUE
  /\ idx' = 0
  /\ batchNo' = batchNo + 1
  /\ selectedCalls' = << >>
  /\ errorCalls' = << >>
  /\ LET file == files[1]
         validation == validateFile(file, accept, maxSize)
     IN /\ validated' = <<file>>
        /\ IF validation.valid
           THEN validFiles' = <<file>> /\ errors' = << >>
           ELSE validFiles' = << >> /\ errors' = <<ErrorLine(file, validation)>>
  /\ UNCHANGED <<upPool, accept, maxSize, hasOnError, disabled>>

handleDrop ==
  /\ ~(disabled \/ upProcessing)
  /\ batchNo < MaxBatches
  /\ \E files \in Batches : validateAndProcessFiles(files)

handleFileInputChange ==
  /\ ~(disabled \/ upProcessing)
  /\ batchNo < MaxBatches
  /\ \E files \in Batches : validateAndProcessFiles(files)

\* the 50 ms timer of the loop fires and another file is left: the next pass
LoopNext ==
  /\ upProcessing
  /\ idx + 1 < Len(fileArray)
  /\ idx' = idx + 1
  /\ LoopBody(fileArray, idx + 1)
  /\ UNCHANGED <<upPool, accept, maxSize, hasOnError, disabled, upProcessing, fileArray,
                 selectedCalls, errorCalls, batchNo>>

\* mutant: a batch with a rejected file is reported and goes no further
LoopEndStopsOnError ==
  /\ upProcessing
  /\ idx + 1 >= Len(fileArray)
  /\ idx' = idx + 1
  /\ upProcessing' = FALSE
  /\ errorCalls' = IF Len(errors) > 0 /\ hasOnError
                   THEN Append(errorCalls, join(errors, <<"\n">>))
                   ELSE errorCalls
  /\ selectedCalls' = IF Len(validFiles) > 0 /\ Len(errors) = 0
                      THEN Append(selectedCalls, validFiles)
                      ELSE selectedCalls
  /\ UNCHANGED <<upPool, accept, maxSize, hasOnError, disabled, fileArray, validFiles,
                 errors, validated, batchNo>>

\* the timer fires after the last file: the loop ends and the callbacks are called
LoopEnd ==
  /\ upProcessing
  /\ idx + 1 >= Len(fileArray)
  /\ idx' = idx + 1
  /\ upProcessing' = FALSE
  /\ errorCalls' = IF Len(errors) > 0 /\ hasOnError
                   THEN Append(errorCalls, join(errors, <<"\n">>))
                   ELSE errorCalls
  /\ selectedCalls' = IF Len(validFiles) > 0
                      THEN Append(selectedCalls, validFiles)
                      ELSE selectedCalls
  /\ UNCHANGED <<upPool, accept, maxSize, hasOnError, disabled, fileArray, validFiles,
                 errors, validated, batchNo>>

(***************************************************************************)
(* Object URLs and blobs, shared by the three tools.                       *)
(***************************************************************************)
VARIABLES
  created,    \* the object URLs URL.createObjectURL has returned
  revoked,    \* the object URLs URL.revokeObjectURL was called on
  dlLog       \* observation: the download steps, <<step, url>>, in order

urlVars == <<created, revoked, dlLog>>

Null == [null |-> TRUE]

\* URL.createObjectURL: a fresh "blob:" URL, told apart by what it was made for
NewUrl(kind) == [kind |-> kind, n |-> Cardinality(created) + 1]

\* the k-th of several URLs created in one step
NewUrlAt(kind, k) == [kind |-> kind, n |-> Cardinality(created) + k]

Live == created \ revoked

\* file-utils revokeObjectURL over a collection: every URL made by
\* createObjectURL starts with "blob:", so each non-null one is revoked
revokeObjectURLs(urlSet) == revoked \cup (urlSet \ {Null})

\* mutant: the URL is never revoked
DownloadStepsNoRevoke(url) == <<<<"create", url>>, <<"click", url>>>>

\* create -> click -> revoke of one download, as the three handlers do it
DownloadSteps(url) == <<<<"create", url>>, <<"click", url>>, <<"revoke", url>>>>

UrlIdle ==
  /\ created = {}
  /\ revoked = {}
  /\ dlLog = << >>

(***************************************************************************)
(* The image tool: ImageCompressor.                                        *)
(***************************************************************************)
\* the images one behaviour loads at most
MaxImages == 2
\* the preview computations in flight at once at most
MaxCalcs == 1
\* the object URLs one behaviour creates at most
MaxUrls == 4
\* the 100 ms clean-up timers pending at once at most
MaxCleanups == 1
\* the settings changes one behaviour makes at most
MaxSettingsChanges == 2
\* the handleProcess runs one behaviour starts at most
MaxRuns == 1

VARIABLES
  images,           \* state: ProcessedImage[]
  settings,         \* state: quality, useCustomSize, width, height, aspectRatioLocked
  isProcessing,     \* state
  previewSizes,     \* state: Map id -> size
  resizedPreviews,  \* state: Map id -> object URL
  previewTimer,     \* the pending 300 ms debounce timer (its closure), or Null
  calcs,            \* the preview computations whose timer has fired, in flight
  cleanups,         \* the pending 100 ms clean-up timers (their closures)
  process,          \* the last handleProcess run: its closure and its promises
  nextId,           \* the number of image ids handed out
  mounted,          \* whether the component is mounted
  lastToast,        \* observation: the last toast shown
  pool,             \* the image files the user has at hand
  changes,          \* the number of settings changes made so far
  runs              \* the number of handleProcess runs started so far

imageVars ==
  <<images, settings, isProcessing, previewSizes, resizedPreviews, previewTimer,
    calcs, cleanups, process, nextId, mounted, lastToast, pool, changes, runs>>

\* what the handlers of the tool never write
envVars == <<pool, changes, runs>>

S_ImageWebp == <<"i","m","a","g","e","/","w","e","b","p">>
N_PhotoJpg == <<"p",".","j","p","g">>

\* the image files a user may upload; decodes says whether the browser can
\* load the file as an image
PngFile ==
  [name |-> N_APng, type |-> S_ImagePng, size |-> 20, width |-> 80, height |-> 60,
   decodes |-> TRUE]
JpegFile ==
  [name |-> N_PhotoJpg, type |-> S_ImageJpeg, size |-> 30, width |-> 40, height |-> 40,
   decodes |-> TRUE]
CorruptFile ==
  [name |-> N_BPngUpper, type |-> S_ImagePng, size |-> 10, width |-> 0, height |-> 0,
   decodes |-> FALSE]

\* the positions of the quality slider the model moves it to
Qualities == {100, 80}
\* the values typed into the width field; 0 stands for the empty string
Widths == {0, 40}
\* the byte counts the codec may produce for a re-encoded image
EncodedSizes == {12}

DefaultSettings ==
  [quality |-> 100, useCustomSize |-> FALSE, width |-> 0, height |-> 0,
   aspectRatioLocked |-> TRUE]

NoProcess == [state |-> "none"]

EmptyMap == << >>

ImageInit ==
  /\ images = << >>
  /\ settings = DefaultSettings
  /\ isProcessing = FALSE
  /\ previewSizes = EmptyMap
  /\ resizedPreviews = EmptyMap
  /\ previewTimer = Null
  /\ calcs = {}
  /\ cleanups = {}
  /\ process = NoProcess
  /\ nextId = 0
  /\ mounted = TRUE
  /\ lastToast = "none"
  /\ changes = 0
  /\ runs = 0

\* mutant: a custom size that is switched on but left empty counts as a resize
BypassOnlyWithoutCustomSize(st) == st.quality = 100 /\ ~st.useCustomSize

\* quality[0] === 100 && (!useCustomSize || (!width && !height))
Bypass(st) ==
  st.quality = 100 /\ (~st.useCustomSize \/ (st.width = 0 /\ st.height = 0))

\* the output MIME type processImage and the preview pass to canvas.toBlob
outputFormat(file, st) ==
  LET isPNG == file.type = S_ImagePng
      isWebP == file.type = S_ImageWebp
  IN IF st.quality = 100
     THEN (IF isPNG THEN S_ImagePng ELSE IF isWebP THEN S_ImageWebp ELSE S_ImageJpeg)
     ELSE (IF isPNG THEN S_ImageJpeg ELSE IF isWebP THEN S_ImageWebp ELSE S_ImageJpeg)

\* the canvas dimensions: [width, height]
targetSize(file, st) ==
  IF st.useCustomSize /\ (st.width # 0 \/ st.height # 0)
  THEN IF st.aspectRatioLocked
       THEN IF st.width # 0
            THEN [width |-> st.width, height |-> (st.width * file.height) \div file.width]
            ELSE [width |-> (st.height * file.width) \div file.height, height |-> st.height]
       ELSE [width |-> IF st.width # 0 THEN st.width ELSE file.width,
             height |-> IF st.height # 0 THEN st.height ELSE file.height]
  ELSE [width |-> file.width, height |-> file.height]

\* the blob canvas.toBlob produces for the file under the settings, of the size
\* the codec chose
EncodedBlob(file, st, size) ==
  [src |-> file, type |-> outputFormat(file, st), size |-> size,
   width |-> targetSize(file, st).width, height |-> targetSize(file, st).height]

\* the ids of a list of images, in order
Ids(imgs) == [k \in 1..Len(imgs) |-> imgs[k].id]

\* images[0]?.id
FirstId(imgs) == IF Len(imgs) > 0 THEN imgs[1].id ELSE 0

\* the dependency list of the preview effect
PreviewDeps(st, proc, imgs) == <<st, proc, Len(imgs), FirstId(imgs)>>

\* One render after a handler: where the dependencies of the preview effect
\* changed, its clean-up clears the pending timer and the effect runs again on
\* the new state; sizes and resized are the maps as the handler left them.
Render(imgs, st, proc, sizes, resized) ==
  IF PreviewDeps(st, proc, imgs) # PreviewDeps(settings, isProcessing, images)
  THEN IF Len(imgs) = 0 \/ proc
       THEN /\ previewSizes' = EmptyMap
            /\ resizedPreviews' = EmptyMap
            /\ previewTimer' = Null
       ELSE /\ previewSizes' = sizes
            /\ resizedPreviews' = resized
            /\ previewTimer' = [images |-> imgs, settings |-> st]
  ELSE /\ previewSizes' = sizes
       /\ resizedPreviews' = resized
       /\ previewTimer' = previewTimer

\* a Map without one key
MapDelete(m, id) == [k \in DOMAIN m \ {id} |-> m[k]]

\* the values of a Map
MapValues(m) == {m[k] : k \in DOMAIN m}

\* handleFilesSelected: a preview URL is created for every file; a file that
\* loads becomes an image, one that does not is reported and left out
RECURSIVE LoadedImages(_, _, _)
LoadedImages(files, k, id) ==
  IF k > Len(files) THEN << >>
  ELSE IF files[k].decodes
  THEN <<[id |-> id + 1, file |-> files[k], preview |-> NewUrlAt("preview", k),
          resizedPreview |-> Null, originalSize |-> files[k].size,
          processedBlob |-> Null, processedSize |-> files[k].size,
          width |-> files[k].width, height |-> files[k].height]>>
       \o LoadedImages(files, k + 1, id + 1)
  ELSE LoadedImages(files, k + 1, id)

ImageBatches == UNION { [1..n -> pool] : n \in 1..MaxImages }

handleFilesSelected ==
  /\ mounted
  /\ \E files \in ImageBatches :
       LET newImages == LoadedImages(files, 1, nextId)
           imgs == images \o newImages
       IN /\ nextId + Len(newImages) <= MaxImages
          /\ Cardinality(created) + Len(files) <= MaxUrls
          /\ created' = created \cup {NewUrlAt("preview", k) : k \in 1..Len(files)}
          /\ images' = imgs
          /\ nextId' = nextId + Len(newImages)
          /\ lastToast' = "Loaded image(s)"
          /\ Render(imgs, settings, isProcessing, previewSizes, resizedPreviews)
  /\ UNCHANGED <<settings, isProcessing, calcs, cleanups, process, mounted,
                 revoked, dlLog>>
  /\ UNCHANGED envVars

\* the quality slider: onValueChange={setQuality}
setQuality ==
  /\ mounted /\ Len(images) > 0
  /\ \E q \in Qualities \ {settings.quality} :
       LET st == [settings EXCEPT !.quality = q]
       IN /\ settings' = st
          /\ Render(images, st, isProcessing, previewSizes, resizedPreviews)
  /\ UNCHANGED <<images, isProcessing, calcs, cleanups, process, nextId, mounted,
                 lastToast, urlVars>>
  /\ changes < MaxSettingsChanges
  /\ changes' = changes + 1
  /\ UNCHANGED <<pool, runs>>

\* the Custom Size switch: switching it off empties width and height
setUseCustomSize ==
  /\ mounted /\ Len(images) > 0
  /\ LET checked == ~settings.useCustomSize
         st == IF checked
               THEN [settings EXCEPT !.useCustomSize = TRUE]
               ELSE [settings EXCEPT !.useCustomSize = FALSE, !.width = 0, !.height = 0]
     IN /\ settings' = st
        /\ Render(images, st, isProcessing, previewSizes, resizedPreviews)
  /\ UNCHANGED <<images, isProcessing, calcs, cleanups, process, nextId, mounted,
                 lastToast, urlVars>>
  /\ changes < MaxSettingsChanges
  /\ changes' = changes + 1
  /\ UNCHANGED <<pool, runs>>

\* Math.round(a / b) for naturals
RoundDiv(a, b) == (2 * a + b) \div (2 * b)

\* the width field: with the aspect ratio locked, the height follows from the
\* first image
setWidth ==
  /\ mounted /\ Len(images) > 0
  /\ settings.useCustomSize
  /\ \E value \in Widths \ {settings.width} :
       LET st == IF settings.aspectRatioLocked /\ value # 0
                 THEN [settings EXCEPT
                         !.width = value,
                         !.height = RoundDiv(value * images[1].height, images[1].width)]
                 ELSE [settings EXCEPT !.width = value]
       IN /\ settings' = st
          /\ Render(images, st, isProcessing, previewSizes, resizedPreviews)
  /\ UNCHANGED <<images, isProcessing, calcs, cleanups, process, nextId, mounted,
                 lastToast, urlVars>>
  /\ changes < MaxSettingsChanges
  /\ changes' = changes + 1
  /\ UNCHANGED <<pool, runs>>

removeImage ==
  /\ mounted
  /\ \E k \in 1..Len(images) :
       LET id == images[k].id
           imgs == SelectSeq(images, LAMBDA img : img.id # id)
           url == IF id \in DOMAIN resizedPreviews THEN resizedPreviews[id] ELSE Null
       IN /\ revoked' = revokeObjectURLs({images[k].preview, images[k].resizedPreview, url})
          /\ images' = imgs
          /\ Render(imgs, settings, isProcessing, MapDelete(previewSizes, id),
                    MapDelete(resizedPreviews, id))
  /\ UNCHANGED <<settings, isProcessing, calcs, cleanups, process, nextId, mounted,
                 lastToast, created, dlLog>>
  /\ UNCHANGED envVars

clearAll ==
  /\ mounted /\ Len(images) > 0
  /\ revoked' = revokeObjectURLs(
                  {images[k].preview : k \in 1..Len(images)}
                  \cup {images[k].resizedPreview : k \in 1..Len(images)}
                  \cup MapValues(resizedPreviews))
  /\ images' = << >>
  /\ settings' = DefaultSettings
  /\ lastToast' = "Cleared all images"
  /\ Render(<< >>, DefaultSettings, isProcessing, EmptyMap, EmptyMap)
  /\ UNCHANGED <<isProcessing, calcs, cleanups, process, nextId, mounted, created, dlLog>>
  /\ UNCHANGED envVars

\* a processImage promise that has not settled, and one that has rejected
Pending == [pending |-> TRUE]
Failed == [failed |-> TRUE]

\* mutant: the blobs are handed out in the order the promises completed
ProcessedImagesByCompletion(imgs, results) ==
  LET late == {k \in 1..Len(imgs) : \A j \in 1..Len(process.order) : process.order[j] # k}
      order == IF process.state = "running" /\ Cardinality(late) = 1
               THEN Append(process.order, CHOOSE k \in late : TRUE)
               ELSE [k \in 1..Len(imgs) |-> k]
  IN [k \in 1..Len(imgs) |->
        [imgs[k] EXCEPT !.processedBlob = results[order[k]],
                        !.processedSize = results[order[k]].size]]

\* the array Promise.all resolves to: the images of the closure in their own
\* order, each with the blob of its own promise
ProcessedImages(imgs, results) ==
  [k \in 1..Len(imgs) |->
     [imgs[k] EXCEPT !.processedBlob = results[k], !.processedSize = results[k].size]]

\* handleProcess: with the bypass settings every promise resolves at once with
\* the file itself; otherwise the promises are left pending
handleProcess ==
  /\ mounted /\ ~isProcessing /\ Len(images) > 0
  /\ IF Bypass(settings)
     THEN LET results == [k \in 1..Len(images) |-> images[k].file]
              imgs == ProcessedImages(images, results)
          IN /\ process' = [state |-> "resolved", images |-> images, settings |-> settings,
                            results |-> results, order |-> [k \in 1..Len(images) |-> k]]
             /\ images' = imgs
             /\ isProcessing' = FALSE
             /\ lastToast' = "Images processed successfully"
             \* isProcessing went to true and back: the effect ran on both renders
             /\ previewSizes' = EmptyMap
             /\ resizedPreviews' = EmptyMap
             /\ previewTimer' = [images |-> imgs, settings |-> settings]
     ELSE /\ process' = [state |-> "running", images |-> images, settings |-> settings,
                         results |-> [k \in 1..Len(images) |-> Pending], order |-> << >>]
          /\ isProcessing' = TRUE
          /\ Render(images, settings, TRUE, previewSizes, resizedPreviews)
          /\ UNCHANGED <<images, lastToast>>
  /\ UNCHANGED <<settings, calcs, cleanups, nextId, mounted, urlVars>>
  /\ runs < MaxRuns
  /\ runs' = runs + 1
  /\ UNCHANGED <<pool, changes>>

AllResolved(results) == \A k \in DOMAIN results : results[k] \notin {Pending, Failed}

\* what the continuation of Promise.all does once every promise has resolved
ProcessCommit(results) ==
  LET imgs == ProcessedImages(process.images, results)
  IN IF mounted
     THEN /\ images' = imgs
          /\ isProcessing' = FALSE
          /\ lastToast' = "Images processed successfully"
          /\ Render(imgs, settings, FALSE, previewSizes, resizedPreviews)
     ELSE UNCHANGED <<images, isProcessing, lastToast, previewSizes, resizedPreviews,
                      previewTimer>>

\* one processImage promise resolves with its blob; the last one of a running
\* batch lets Promise.all resolve
ProcessImageResolves ==
  /\ process.state \in {"running", "rejected"}
  /\ \E k \in DOMAIN process.results, size \in EncodedSizes :
       /\ process.results[k] = Pending
       /\ LET blob == EncodedBlob(process.images[k].file, process.settings, size)
              results == [process.results EXCEPT ![k] = blob]
              done == process.state = "running" /\ AllResolved(results)
          IN /\ process' = [process EXCEPT
                              !.results = results,
                              !.order = Append(process.order, k),
                              !.state = IF done THEN "resolved" ELSE process.state]
             /\ IF done
                THEN ProcessCommit(results)
                ELSE UNCHANGED <<images, isProcessing, lastToast, previewSizes,
                                 resizedPreviews, previewTimer>>
  /\ UNCHANGED <<settings, calcs, cleanups, nextId, mounted, urlVars>>
  /\ UNCHANGED envVars

\* one processImage promise rejects (the image does not load, no canvas
\* context, no blob); the first rejection rejects Promise.all
ProcessImageRejects ==
  /\ process.state \in {"running", "rejected"}
  /\ \E k \in DOMAIN process.results :
       /\ process.results[k] = Pending
       /\ process' = [process EXCEPT
                        !.results = [process.results EXCEPT ![k] = Failed],
                        !.order = Append(process.order, k),
                        !.state = "rejected"]
  /\ IF process.state = "running" /\ mounted
     THEN /\ isProcessing' = FALSE
          /\ lastToast' = "Failed to process images"
          /\ Render(images, settings, FALSE, previewSizes, resizedPreviews)
     ELSE UNCHANGED <<isProcessing, lastToast, previewSizes, resizedPreviews, previewTimer>>
  /\ UNCHANGED <<images, settings, calcs, cleanups, nextId, mounted, urlVars>>
  /\ UNCHANGED envVars

\* the outcomes of one preview calculation: no blob, or a blob of some size
CalcOutcomes == {0} \cup EncodedSizes

\* the images of a closure whose calculation produced a blob
Produced(imgs, outcome) == {k \in 1..Len(imgs) : outcome[k] # 0}

\* the position of k among the produced ones: the order the URLs are created in
Rank(prod, k) == Cardinality({j \in prod : j <= k})

\* what the timer callback commits once Promise.all(calculations) resolves:
\* the two new maps replace the state's, and the 100 ms clean-up is scheduled
\* for the previews the callback saw when it started
PreviewCommit(imgs, old, newSizes, newResized) ==
  /\ IF mounted
     THEN previewSizes' = newSizes /\ resizedPreviews' = newResized
     ELSE UNCHANGED <<previewSizes, resizedPreviews>>
  /\ cleanups' = cleanups \cup {[old |-> old, new |-> DOMAIN newResized]}

\* the 300 ms debounce timer fires.  On the bypass settings every calculation
\* ends at once with the file's own size and no resized preview; otherwise the
\* calculations are left in flight
PreviewTimerFires ==
  /\ previewTimer # Null
  /\ Bypass(previewTimer.settings) => Cardinality(cleanups) < MaxCleanups
  /\ previewTimer' = Null
  /\ IF Bypass(previewTimer.settings)
     THEN /\ PreviewCommit(previewTimer.images, resizedPreviews,
                           [id \in {previewTimer.images[k].id :
                                      k \in 1..Len(previewTimer.images)} |->
                              (CHOOSE img \in {previewTimer.images[k] :
                                                 k \in 1..Len(previewTimer.images)} :
                                 img.id = id).file.size],
                           EmptyMap)
          /\ UNCHANGED calcs
     ELSE /\ Cardinality(calcs) < MaxCalcs
          /\ calcs' = calcs \cup {[images |-> previewTimer.images,
                                   settings |-> previewTimer.settings,
                                   old |-> resizedPreviews]}
          /\ UNCHANGED <<previewSizes, resizedPreviews, cleanups>>
  /\ UNCHANGED <<images, settings, isProcessing, process, nextId, mounted, lastToast,
                 urlVars>>
  /\ UNCHANGED envVars

\* every calculation of one timer callback has ended: each image either got a
\* blob, whose size is recorded and for which a resized-preview URL is created,
\* or did not (load error, no context, no blob)
PreviewCalcCompletes ==
  /\ \E c \in calcs :
       \E outcome \in [1..Len(c.images) -> CalcOutcomes] :
         LET prod == Produced(c.images, outcome)
             ids == {c.images[k].id : k \in prod}
             at(id) == CHOOSE k \in prod : c.images[k].id = id
             newSizes == [id \in ids |-> outcome[at(id)]]
             newResized == [id \in ids |-> NewUrlAt("resized", Rank(prod, at(id)))]
         IN /\ Cardinality(created) + Cardinality(prod) <= MaxUrls
            /\ Cardinality(cleanups) < MaxCleanups
            /\ created' = created \cup MapValues(newResized)
            /\ calcs' = calcs \ {c}
            /\ PreviewCommit(c.images, c.old, newSizes, newResized)
  /\ UNCHANGED <<images, settings, isProcessing, previewTimer, process, nextId, mounted,
                 lastToast, revoked, dlLog>>
  /\ UNCHANGED envVars

\* the 100 ms clean-up timer: an old preview is revoked only if its image id
\* is not in the new previews
PreviewCleanupFires ==
  /\ \E c \in cleanups :
       /\ cleanups' = cleanups \ {c}
       /\ revoked' = revoked \cup {c.old[id] : id \in DOMAIN c.old \ c.new}
  /\ UNCHANGED <<images, settings, isProcessing, previewSizes, resizedPreviews,
                 previewTimer, calcs, process, nextId, mounted, lastToast, created, dlLog>>
  /\ UNCHANGED envVars

\* unmount: the clean-up of the mount effect revokes what the refs hold and
\* clears the debounce timer
Unmount ==
  /\ mounted
  /\ mounted' = FALSE
  /\ revoked' = revokeObjectURLs(
                  {images[k].preview : k \in 1..Len(images)}
                  \cup {images[k].resizedPreview : k \in 1..Len(images)}
                  \cup MapValues(resizedPreviews))
  /\ previewTimer' = Null
  /\ UNCHANGED <<images, settings, isProcessing, previewSizes, resizedPreviews, calcs,
                 cleanups, process, nextId, lastToast, created, dlLog>>
  /\ UNCHANGED envVars

(***************************************************************************)
(* Downloads.  Every tool hands a result to the browser in one synchronous *)
(* block: createObjectURL, a click on a temporary anchor, revokeObjectURL. *)
(***************************************************************************)
\* the download handlers one behaviour starts at most
MaxDownloads == 1

VARIABLES
  tab,       \* the tab shown: Radix Tabs mounts the content of the active tab only
  saved,     \* observation: what the browser was asked to save: url, name, blob
  dlAll,     \* the handleDownloadAll loops waiting on their 100 ms timer
  started    \* the number of download handlers started so far

dlVars == <<tab, saved, dlAll, started>>

DlIdle ==
  /\ saved = << >>
  /\ dlAll = {}
  /\ started = 0

\* the URLs a run of download steps creates, and the ones it revokes
CreatedBy(steps) == {steps[k][2] : k \in {j \in 1..Len(steps) : steps[j][1] = "create"}}
RevokedBy(steps) == {steps[k][2] : k \in {j \in 1..Len(steps) : steps[j][1] = "revoke"}}
Clicked(steps) == \E k \in 1..Len(steps) : steps[k][1] = "click"

\* the block itself: the anchor gets the URL and the name, is clicked, and the
\* URL is revoked
Download(name, blob) ==
  LET url == NewUrl("download")
      steps == DownloadSteps(url)
  IN /\ created' = created \cup CreatedBy(steps)
     /\ revoked' = revoked \cup RevokedBy(steps)
     /\ dlLog' = dlLog \o steps
     /\ saved' = IF Clicked(steps)
                 THEN Append(saved, [url |-> url, name |-> name, blob |-> blob])
                 ELSE saved

\* name.replace(/\.[^/.]+$/, ""): the name without its last extension
stripExtension(n) ==
  LET dots == {k \in 1..Len(n) : n[k] = "."}
      last == CHOOSE k \in dots : \A j \in dots : j <= k
  IN IF dots # {} /\ last < Len(n) /\ \A j \in (last + 1)..Len(n) : n[j] # "/"
     THEN SubSeq(n, 1, last - 1)
     ELSE n

S_Png == <<"p","n","g">>
S_Jpg == <<"j","p","g">>
S_Processed == <<"_","p","r","o","c","e","s","s","e","d",".">>

\* the a.download of the image tool
ImageDownloadName(image) ==
  stripExtension(image.file.name) \o S_Processed
    \o (IF includes(image.file.type, S_Png) THEN S_Png ELSE S_Jpg)

\* ImageCompressor handleDownload
handleDownload(image) ==
  IF image.processedBlob = Null
  THEN /\ lastToast' = "Please process the image first"
       /\ UNCHANGED <<created, revoked, dlLog, saved>>
  ELSE /\ Download(ImageDownloadName(image), image.processedBlob)
       /\ lastToast' = "Download started"

\* images.filter((img) => img.processedBlob)
RECURSIVE WithBlob(_)
WithBlob(imgs) ==
  IF imgs = << >> THEN << >>
  ELSE IF Head(imgs).processedBlob # Null
       THEN <<Head(imgs)>> \o WithBlob(Tail(imgs))
       ELSE WithBlob(Tail(imgs))

\* handleDownloadAll up to its first timer: the first download is made at once
handleDownloadAll ==
  /\ mounted /\ Len(images) > 0 /\ ~isProcessing
  /\ WithBlob(images) # << >>
  /\ started < MaxDownloads
  /\ started' = started + 1
  /\ handleDownload(Head(WithBlob(images)))
  /\ dlAll' = dlAll \cup {[no |-> started + 1, rest |-> Tail(WithBlob(images))]}
  /\ UNCHANGED <<images, settings, isProcessing, previewSizes, resizedPreviews,
                 previewTimer, calcs, cleanups, process, nextId, mounted, tab>>
  /\ UNCHANGED envVars

\* the 100 ms timer of a handleDownloadAll loop: the next download, or the end
\* of the loop
DownloadTimerFires ==
  /\ \E loop \in dlAll :
       IF loop.rest = << >>
       THEN /\ dlAll' = dlAll \ {loop}
            /\ UNCHANGED <<created, revoked, dlLog, saved, lastToast>>
       ELSE /\ handleDownload(Head(loop.rest))
            /\ dlAll' = (dlAll \ {loop}) \cup {[loop EXCEPT !.rest = Tail(loop.rest)]}
  /\ UNCHANGED <<images, settings, isProcessing, previewSizes, resizedPreviews,
                 previewTimer, calcs, cleanups, process, nextId, mounted, tab, started>>
  /\ UNCHANGED envVars

(***************************************************************************)
(* The PDF tool: PDFConverter.                                             *)
(***************************************************************************)
\* the pages of the PDF the model loads
MaxPages == 3
\* the PDFs one behaviour loads at most
MaxLoads == 1

VARIABLES
  pdfFile,        \* state: the loaded File, or Null
  pages,          \* state: PDFPage[]
  pdfProcessing,  \* state: isProcessing
  export,         \* the last handleExport run: its closure and its progress
  pdfToast,       \* observation: the last toast shown
  loads           \* the number of files loaded so far, in the PDF and the audio tool

pdfVars == <<pdfFile, pages, pdfProcessing, export, pdfToast, loads>>

N_DocPdf == <<"d","o","c",".","p","d","f">>
N_BadPdf == <<"b","a","d",".","p","d","f">>
S_ApplicationPdf == <<"a","p","p","l","i","c","a","t","i","o","n","/","p","d","f">>

\* the PDFs a user may upload; loads says whether PDF.js can open the file
DocPdf == [name |-> N_DocPdf, type |-> S_ApplicationPdf, numPages |-> MaxPages, loads |-> TRUE]
BadPdf == [name |-> N_BadPdf, type |-> S_ApplicationPdf, numPages |-> 0, loads |-> FALSE]
PdfPool == {DocPdf, BadPdf}

\* the pages whose thumbnail fails to render, per load
ThumbFailures == {{2}}

NoExport == [state |-> "none"]

\* a toast, and a toast whose text carries a number
Toast(msg) == [msg |-> msg, n |-> 0]
ToastN(msg, n) == [msg |-> msg, n |-> n]

PdfIdle ==
  /\ pdfFile = Null
  /\ pages = << >>
  /\ pdfProcessing = FALSE
  /\ export = NoExport
  /\ pdfToast = Toast("none")
  /\ loads = 0

\* the clean-up of the thumbnail effect: it runs whenever pages is replaced and
\* revokes every thumbnail of the pages it replaces
ThumbnailCleanup(oldPages) ==
  revokeObjectURLs({oldPages[k].thumbnail : k \in 1..Len(oldPages)})

\* loadPDF, called by handleFilesSelected with files[0]; a page whose
\* thumbnail fails is kept with an empty thumbnail
loadPDF ==
  /\ ~pdfProcessing
  /\ loads < MaxLoads
  /\ loads' = loads + 1
  /\ \E file \in PdfPool :
       IF ~file.loads
       THEN /\ pdfToast' = Toast("Failed to load PDF. The file may be corrupted.")
            /\ UNCHANGED <<pdfFile, pages, created, revoked>>
       ELSE \E bad \in ThumbFailures :
              LET good(i) == Cardinality({j \in 1..i : j \notin bad})
                  newPages ==
                    [i \in 1..file.numPages |->
                       [pageNumber |-> i,
                        thumbnail |-> IF i \in bad THEN Null
                                      ELSE NewUrlAt("thumbnail", good(i)),
                        selected |-> FALSE]]
              IN /\ created' = created
                      \cup ({newPages[i].thumbnail : i \in 1..Len(newPages)} \ {Null})
                 /\ revoked' = ThumbnailCleanup(pages)
                 /\ pages' = newPages
                 /\ pdfFile' = file
                 /\ pdfToast' = ToastN("Loaded PDF with page(s)", file.numPages)
  /\ UNCHANGED <<pdfProcessing, export, dlLog, saved, started>>

\* a click on a page
togglePageSelection ==
  /\ \E p \in 1..Len(pages) :
       pages' = [pages EXCEPT ![p].selected = ~pages[p].selected]
  /\ revoked' = ThumbnailCleanup(pages)
  /\ UNCHANGED <<pdfFile, pdfProcessing, export, pdfToast, loads, created, dlLog,
                 saved, started>>

\* Select All: prev.map builds a new array even when nothing changes
selectAll ==
  /\ Len(pages) > 0
  /\ pages' = [k \in 1..Len(pages) |-> [pages[k] EXCEPT !.selected = TRUE]]
  /\ revoked' = ThumbnailCleanup(pages)
  /\ UNCHANGED <<pdfFile, pdfProcessing, export, pdfToast, loads, created, dlLog,
                 saved, started>>

deselectAll ==
  /\ Len(pages) > 0
  /\ pages' = [k \in 1..Len(pages) |-> [pages[k] EXCEPT !.selected = FALSE]]
  /\ revoked' = ThumbnailCleanup(pages)
  /\ UNCHANGED <<pdfFile, pdfProcessing, export, pdfToast, loads, created, dlLog,
                 saved, started>>

\* pages.filter((p) => p.selected), as page numbers
RECURSIVE SelectedPages(_)
SelectedPages(ps) ==
  IF ps = << >> THEN << >>
  ELSE IF Head(ps).selected
       THEN <<Head(ps).pageNumber>> \o SelectedPages(Tail(ps))
       ELSE SelectedPages(Tail(ps))

S_PagePrefix == <<"p","a","g","e","-">>
S_PagesZip == <<"_","p","a","g","e","s",".","p","n","g",".","z","i","p">>

\* `page-${page.pageNumber}.png`
PageFileName(pageNumber) == S_PagePrefix \o DecimalString(pageNumber) \o S_DotPng

\* handleExport up to its first await: the button is disabled when no page is
\* selected or an export is running
handleExport ==
  /\ pdfFile # Null /\ SelectedPages(pages) # << >>
  /\ ~pdfProcessing
  /\ started < MaxDownloads
  /\ started' = started + 1
  /\ pdfProcessing' = TRUE
  /\ export' = [state |-> "reading", file |-> pdfFile, selected |-> SelectedPages(pages),
                at |-> 1, zip |-> << >>, failed |-> {}, toasts |-> << >>,
                threw |-> "nothing"]
  /\ UNCHANGED <<pdfFile, pages, pdfToast, loads, urlVars, saved>>

\* the outer catch and the finally of handleExport
ExportFails(what) ==
  /\ export' = [export EXCEPT !.state = "failed", !.threw = what,
                              !.toasts = Append(@, Toast("Failed to export pages"))]
  /\ pdfToast' = Toast("Failed to export pages")
  /\ pdfProcessing' = FALSE

\* pdfFile.arrayBuffer() settles
ExportFileRead ==
  /\ export.state = "reading"
  /\ \E ok \in BOOLEAN :
       IF ok
       THEN /\ export' = [export EXCEPT !.state = "rendering"]
            /\ UNCHANGED <<pdfToast, pdfProcessing>>
       ELSE ExportFails("arrayBuffer")
  /\ UNCHANGED <<pdfFile, pages, loads, urlVars, saved, started>>

\* mutant: a page that fails to render ends the export
PageRenderFailedAborts(pageNumber) == ExportFails("renderPDFPageToImage")

\* the catch inside the loop: the page is reported and the loop goes on
PageRenderFailed(pageNumber) ==
  /\ export' = [export EXCEPT !.at = @ + 1,
                              !.failed = @ \cup {pageNumber},
                              !.toasts = Append(@, ToastN("Failed to render page", pageNumber))]
  /\ pdfToast' = ToastN("Failed to render page", pageNumber)
  /\ UNCHANGED pdfProcessing

\* one turn of the loop over the selected pages: renderPDFPageToImage settles
ExportRenderPage ==
  /\ export.state = "rendering"
  /\ export.at <= Len(export.selected)
  /\ LET pageNumber == export.selected[export.at]
     IN \E ok \in BOOLEAN :
          IF ok
          THEN /\ export' = [export EXCEPT
                               !.at = @ + 1,
                               !.zip = Append(@, [name |-> PageFileName(pageNumber),
                                                  page |-> pageNumber])]
               /\ UNCHANGED <<pdfToast, pdfProcessing>>
          ELSE PageRenderFailed(pageNumber)
  /\ UNCHANGED <<pdfFile, pages, loads, urlVars, saved, started>>

\* after the loop: zip.generateAsync settles, and the ZIP is downloaded
ExportGenerate ==
  /\ export.state = "rendering"
  /\ export.at > Len(export.selected)
  /\ \E ok \in BOOLEAN :
       IF ok
       THEN /\ Download(stripExtension(export.file.name) \o S_PagesZip,
                        [type |-> "application/zip", entries |-> export.zip])
            /\ export' = [export EXCEPT
                            !.state = "done",
                            !.toasts = Append(@, ToastN("Exported page(s) as PNG",
                                                        Len(export.selected)))]
            /\ pdfToast' = ToastN("Exported page(s) as PNG", Len(export.selected))
            /\ pdfProcessing' = FALSE
       ELSE /\ ExportFails("generateAsync")
            /\ UNCHANGED <<urlVars, saved>>
  /\ UNCHANGED <<pdfFile, pages, loads, started>>

(***************************************************************************)
(* The audio tool: AudioTrimmer.                                           *)
(***************************************************************************)
\* the files one behaviour loads into the audio tool at most
MaxAudioLoads == 2
\* the events of cleaned-up WaveSurfer instances one behaviour delivers at most
MaxLateEvents == 2

VARIABLES
  audioFile,        \* state: the loaded File, or Null
  audioUrl,         \* state: the object URL of the file, or Null
  wavesurfer,       \* state: the WaveSurfer instance ([n |-> its number]), or Null
  audioLoading,     \* state: isLoading
  audioProcessing,  \* state: isProcessing
  audioDl,          \* the handleDownload run in flight
  audioToast,       \* observation: the last toast shown
  isPlaying,        \* state
  duration,         \* state, in tenths of a second
  currentTime,      \* state, in tenths of a second
  trimStart,        \* state and trimStartRef, in tenths of a second
  trimEnd,          \* state and trimEndRef, in tenths of a second
  isDraggingStart,  \* state
  isDraggingEnd,    \* state
  instances,        \* the WaveSurfer instances made so far, with the isMounted
                    \* flag of the effect run that made each
  lateEvents,       \* the events of cleaned-up instances delivered so far
  lastLate,         \* the last of them: [n, name, time], or Null
  audioMounted      \* the AudioTrimmer is mounted

audioVars ==
  <<audioFile, audioUrl, wavesurfer, audioLoading, audioProcessing, audioDl, audioToast,
    isPlaying, duration, currentTime, trimStart, trimEnd, isDraggingStart, isDraggingEnd,
    instances, lateEvents, lastLate, audioMounted>>

\* what the trimmer shows and the instances behind it
trimVars ==
  <<isPlaying, duration, currentTime, trimStart, trimEnd, isDraggingStart, isDraggingEnd,
    instances, lateEvents, lastLate, audioMounted>>

N_SongMp3 == <<"s","o","n","g",".","m","p","3">>
N_NoiseMp3 == <<"n","o","i","s","e",".","m","p","3">>
S_AudioMpeg == <<"a","u","d","i","o","/","m","p","e","g">>
S_TrimmedWav == <<"_","t","r","i","m","m","e","d",".","w","a","v">>

\* the audio files a user may upload; decodes says whether decodeAudioData
\* can decode the file, duration is what ws.getDuration() returns for it, in
\* tenths of a second
\* sampleRate and numberOfChannels are those of the AudioBuffer decodeAudioData
\* makes of the file
SongFile ==
  [name |-> N_SongMp3, type |-> S_AudioMpeg, decodes |-> TRUE, duration |-> 40,
   sampleRate |-> 3, numberOfChannels |-> 2]
NoiseFile ==
  [name |-> N_NoiseMp3, type |-> S_AudioMpeg, decodes |-> FALSE, duration |-> 20,
   sampleRate |-> 3, numberOfChannels |-> 1]
AudioPool == {SongFile, NoiseFile}

NoAudioDl == [state |-> "none"]

\* useState(0) for trimStart, duration and currentTime, useState(100) for trimEnd
AudioIdle ==
  /\ audioFile = Null
  /\ audioUrl = Null
  /\ wavesurfer = Null
  /\ audioLoading = FALSE
  /\ audioProcessing = FALSE
  /\ audioDl = NoAudioDl
  /\ audioToast = "none"
  /\ isPlaying = FALSE
  /\ duration = 0
  /\ currentTime = 0
  /\ trimStart = 0
  /\ trimEnd = 1000
  /\ isDraggingStart = FALSE
  /\ isDraggingEnd = FALSE
  /\ instances = << >>
  /\ lateEvents = 0
  /\ lastLate = Null
  /\ audioMounted = TRUE

\* the state the listeners of a WaveSurfer instance write
ListenerState ==
  [duration |-> duration, trimEnd |-> trimEnd, isLoading |-> audioLoading,
   isPlaying |-> isPlaying, currentTime |-> currentTime, toast |-> audioToast]

SetListenerState(st) ==
  /\ duration' = st.duration
  /\ trimEnd' = st.trimEnd
  /\ audioLoading' = st.isLoading
  /\ isPlaying' = st.isPlaying
  /\ currentTime' = st.currentTime
  /\ audioToast' = st.toast

EventNames == {"ready", "error", "play", "pause", "finish", "timeupdate", "loadRejected"}

\* what a listener does once it is past its guard
Listener(ws, name, time, st) ==
  CASE name = "ready" ->
         [st EXCEPT !.duration = ws.file.duration, !.trimEnd = ws.file.duration,
                    !.isLoading = FALSE]
    [] name = "error" ->
         [st EXCEPT !.isLoading = FALSE,
                    !.toast = "Failed to load audio file. Please try again."]
    [] name = "play" -> [st EXCEPT !.isPlaying = TRUE]
    [] name = "pause" -> [st EXCEPT !.isPlaying = FALSE]
    [] name = "finish" -> [st EXCEPT !.isPlaying = FALSE]
    [] name = "timeupdate" -> [st EXCEPT !.currentTime = time]
    [] name = "loadRejected" ->
         [st EXCEPT !.isLoading = FALSE,
                    !.toast = "Failed to load audio file. Please try a different file."]

\* mutant: the listeners do not look at isMounted
onUnguarded(ws, name, time, st) == Listener(ws, name, time, st)

\* ws.on(name, ...) and the catch block of initWaveSurfer: the state after the
\* listener of instance ws has run on state st
on(ws, name, time, st) ==
  IF ~ws.isMounted THEN st ELSE Listener(ws, name, time, st)

\* the clean-up of the WaveSurfer effect: isMounted = false and ws.destroy()
CleanedUp(insts) ==
  [n \in DOMAIN insts |->
     [insts[n] EXCEPT !.isMounted = FALSE, !.state = "destroyed", !.playing = FALSE]]

\* AudioTrimmer handleFilesSelected with the effects of the render it causes:
\* the WaveSurfer effect cleans up the old instance, makes a new one and calls
\* setWavesurfer, and on that render the clean-up effect, whose closure holds
\* the new audioUrl, runs
Audio_handleFilesSelected ==
  /\ audioMounted
  /\ ~audioLoading /\ ~audioProcessing
  /\ loads < MaxAudioLoads
  /\ loads' = loads + 1
  /\ \E file \in AudioPool :
       LET url == NewUrl("audio")
       IN /\ audioFile' = file
          /\ audioUrl' = url
          /\ created' = created \cup {url}
          /\ revoked' = revokeObjectURLs({audioUrl, url})
          /\ instances' = Append(CleanedUp(instances),
                                 [url |-> url, file |-> file, isMounted |-> TRUE,
                                  state |-> "loading", playing |-> FALSE])
  /\ wavesurfer' = [n |-> Len(instances) + 1]
  /\ audioLoading' = TRUE
  /\ audioToast' = "Audio file loaded"
  /\ UNCHANGED <<audioProcessing, audioDl, dlLog, saved, started>>
  /\ UNCHANGED <<isPlaying, duration, currentTime, trimStart, trimEnd, isDraggingStart,
                 isDraggingEnd, lateEvents, lastLate, audioMounted>>

\* ws.on("ready"), ws.on("error") and the catch of ws.load: the load of the
\* waveform of the instance in use settles
WaveSurferSettles ==
  /\ wavesurfer # Null /\ instances[wavesurfer.n].state = "loading"
  /\ \E name \in {"ready", "error", "loadRejected"} :
       /\ SetListenerState(on(instances[wavesurfer.n], name, 0, ListenerState))
       /\ instances' = [instances EXCEPT
                          ![wavesurfer.n].state = IF name = "ready" THEN "ready" ELSE "error"]
  /\ UNCHANGED <<audioFile, audioUrl, wavesurfer, audioProcessing, audioDl, loads, urlVars,
                 saved, started>>
  /\ UNCHANGED <<trimStart, isDraggingStart, isDraggingEnd, lateEvents, lastLate, audioMounted>>

\* the times a timeupdate of an instance reports
Times(ws) == {ws.file.duration \div 2, ws.file.duration}

\* ws.on("play"), ("pause"), ("finish") and ("timeupdate") of the instance in
\* use; the timeupdate listener pauses the instance at the trim end
WaveSurferPlayback ==
  /\ wavesurfer # Null /\ instances[wavesurfer.n].state = "ready"
  /\ \E name \in {"play", "pause", "finish", "timeupdate"},
        time \in {0} \cup Times(instances[wavesurfer.n]) :
       /\ name = "pause" <=> ~instances[wavesurfer.n].playing
       /\ name = "timeupdate" <=> time # 0
       /\ SetListenerState(on(instances[wavesurfer.n], name, time, ListenerState))
       /\ instances' =
            [instances EXCEPT ![wavesurfer.n].playing =
               IF name = "finish" \/ (name = "timeupdate" /\ time >= trimEnd)
               THEN FALSE ELSE @]
  /\ UNCHANGED <<audioFile, audioUrl, wavesurfer, audioProcessing, audioDl, loads, urlVars,
                 saved, started>>
  /\ UNCHANGED <<trimStart, isDraggingStart, isDraggingEnd, lateEvents, lastLate, audioMounted>>

\* an event of an instance whose effect has been cleaned up, or the late
\* rejection of its load, reaches its listener
WaveSurferLateEvent ==
  /\ lateEvents < MaxLateEvents
  /\ lateEvents' = lateEvents + 1
  /\ \E n \in DOMAIN instances, name \in EventNames, time \in {0, 10} :
       /\ ~instances[n].isMounted
       /\ name = "timeupdate" <=> time # 0
       /\ SetListenerState(on(instances[n], name, time, ListenerState))
       /\ lastLate' = [n |-> n, name |-> name, time |-> time]
  /\ UNCHANGED <<audioFile, audioUrl, wavesurfer, audioProcessing, audioDl, loads, urlVars,
                 saved, started>>
  /\ UNCHANGED <<trimStart, isDraggingStart, isDraggingEnd, instances, audioMounted>>

\* handlePlay: pause when playing, play otherwise; the button needs a
\* WaveSurfer instance in state
handlePlay ==
  /\ audioMounted /\ audioUrl # Null /\ wavesurfer # Null
  /\ instances[wavesurfer.n].state = "ready"
  /\ instances' = [instances EXCEPT ![wavesurfer.n].playing = ~isPlaying]
  /\ UNCHANGED <<audioFile, audioUrl, wavesurfer, audioLoading, audioProcessing, audioDl,
                 audioToast, loads, urlVars, saved, started>>
  /\ UNCHANGED <<isPlaying, duration, currentTime, trimStart, trimEnd, isDraggingStart,
                 isDraggingEnd, lateEvents, lastLate, audioMounted>>

\* handleStop: pause and seek to the trim start
handleStop ==
  /\ audioMounted /\ audioUrl # Null /\ wavesurfer # Null
  /\ instances[wavesurfer.n].state = "ready"
  /\ instances' = [instances EXCEPT ![wavesurfer.n].playing = FALSE]
  /\ UNCHANGED <<audioFile, audioUrl, wavesurfer, audioLoading, audioProcessing, audioDl,
                 audioToast, loads, urlVars, saved, started>>
  /\ UNCHANGED <<isPlaying, duration, currentTime, trimStart, trimEnd, isDraggingStart,
                 isDraggingEnd, lateEvents, lastLate, audioMounted>>

\* the values a slider reports: min 0, max duration || 100 seconds
SliderValues == {v \in {0, 20, 25, 1000} : v <= (IF duration = 0 THEN 1000 ELSE duration)}

\* what the trim handlers leave alone
TrimFrame ==
  /\ UNCHANGED <<audioFile, audioUrl, wavesurfer, audioLoading, audioProcessing, audioDl,
                 audioToast, loads, urlVars, saved, started>>
  /\ UNCHANGED <<isPlaying, duration, currentTime, instances, lateEvents, lastLate, audioMounted>>

handleTrimStartChange ==
  /\ audioMounted /\ audioUrl # Null
  /\ \E newStart \in SliderValues \ {trimStart} :
       trimStart' = IF newStart < trimEnd THEN newStart ELSE trimStart
  /\ UNCHANGED <<trimEnd, isDraggingStart, isDraggingEnd>>
  /\ TrimFrame

handleTrimEndChange ==
  /\ audioMounted /\ audioUrl # Null
  /\ \E newEnd \in SliderValues \ {trimEnd} :
       trimEnd' = IF newEnd > trimStart THEN newEnd ELSE trimEnd
  /\ UNCHANGED <<trimStart, isDraggingStart, isDraggingEnd>>
  /\ TrimFrame

\* the positions of the mouse over the waveform container, in percent
DragPercents == {0, 50, 100}

\* handleTrimDrag: the new <<trimStart, trimEnd>>; 0.1 s is one tenth
handleTrimDrag(percentage, isStart) ==
  LET time == (percentage * duration) \div 100
  IN IF duration = 0 THEN <<trimStart, trimEnd>>
     ELSE IF isStart
     THEN IF time < trimEnd - 1 THEN <<time, trimEnd>> ELSE <<trimStart, trimEnd>>
     ELSE IF time > trimStart + 1 THEN <<trimStart, time>> ELSE <<trimStart, trimEnd>>

\* the trim handles are rendered once duration > 0
handleMouseDown ==
  /\ audioMounted /\ audioUrl # Null /\ duration > 0
  /\ ~isDraggingStart /\ ~isDraggingEnd
  /\ \E isStart \in BOOLEAN :
       /\ isDraggingStart' = isStart
       /\ isDraggingEnd' = ~isStart
  /\ UNCHANGED <<trimStart, trimEnd>>
  /\ TrimFrame

handleMouseMove ==
  /\ audioMounted /\ audioUrl # Null
  /\ isDraggingStart \/ isDraggingEnd
  /\ \E percentage \in DragPercents :
       LET trim == handleTrimDrag(percentage, isDraggingStart)
       IN /\ trimStart' = trim[1]
          /\ trimEnd' = trim[2]
  /\ UNCHANGED <<isDraggingStart, isDraggingEnd>>
  /\ TrimFrame

\* handleMouseUp and the global mouseup listener
handleMouseUp ==
  /\ audioMounted
  /\ isDraggingStart \/ isDraggingEnd
  /\ isDraggingStart' = FALSE
  /\ isDraggingEnd' = FALSE
  /\ UNCHANGED <<trimStart, trimEnd>>
  /\ TrimFrame

\* the AudioTrimmer unmounts: both effects are cleaned up
Audio_Unmount ==
  /\ audioMounted
  /\ audioMounted' = FALSE
  /\ instances' = CleanedUp(instances)
  /\ revoked' = revokeObjectURLs({audioUrl})
  /\ UNCHANGED <<audioFile, audioUrl, wavesurfer, audioLoading, audioProcessing, audioDl,
                 audioToast, loads, created, dlLog, saved, started>>
  /\ UNCHANGED <<isPlaying, duration, currentTime, trimStart, trimEnd, isDraggingStart,
                 isDraggingEnd, lateEvents, lastLate>>

\* AudioTrimmer handleDownload up to its first await: the button is disabled
\* without a file and while a download is being made
Audio_handleDownload ==
  /\ audioFile # Null /\ audioUrl # Null
  /\ ~audioProcessing
  /\ started < MaxDownloads
  /\ started' = started + 1
  /\ audioProcessing' = TRUE
  /\ audioDl' = [state |-> "decoding", file |-> audioFile,
                  trimStart |-> trimStart, trimEnd |-> trimEnd]
  /\ UNCHANGED <<audioFile, audioUrl, wavesurfer, audioLoading, audioToast, loads,
                 urlVars, saved>>
  /\ UNCHANGED trimVars

\* the AudioBuffer decodeAudioData makes of a file; sample i of a channel is
\* written [channel, i]
decodeAudioData(file) ==
  [numberOfChannels |-> file.numberOfChannels, sampleRate |-> file.sampleRate,
   length |-> (file.duration * file.sampleRate) \div 10]

\* channelData[i] of a Float32Array: undefined past its end, which a
\* Float32Array stores as NaN
NaN == [nan |-> TRUE]
getChannelData(buffer, channel, i) ==
  IF i >= 0 /\ i < buffer.length THEN [channel |-> channel, i |-> i] ELSE NaN

\* Math.floor(t * sampleRate) for a time in tenths of a second
floor(t, sampleRate) == (t * sampleRate) \div 10

\* the trimmed buffer of handleDownload: createBuffer and the copy loops;
\* frame i of the code is data[channel][i + 1]
trimmedBuffer(audioBuffer, start, end) ==
  LET startSample == floor(start, audioBuffer.sampleRate)
      endSample == floor(end, audioBuffer.sampleRate)
      length == endSample - startSample
  IN [numberOfChannels |-> audioBuffer.numberOfChannels,
      sampleRate |-> audioBuffer.sampleRate,
      length |-> length,
      data |-> [channel \in 1..audioBuffer.numberOfChannels |->
                  [i \in 1..length |->
                     getChannelData(audioBuffer, channel, startSample + i - 1)]]]

\* createBuffer throws for a length that is not positive
createBufferThrows(audioBuffer, start, end) ==
  floor(end, audioBuffer.sampleRate) - floor(start, audioBuffer.sampleRate) <= 0

\* decodeAudioData settles: the trimmed WAV is downloaded, or the catch block
\* reports the failure; the finally block ends the run either way
AudioDecodeSettles ==
  /\ audioDl.state = "decoding"
  /\ IF /\ audioDl.file.decodes
        /\ ~createBufferThrows(decodeAudioData(audioDl.file), audioDl.trimStart,
                               audioDl.trimEnd)
     THEN /\ Download(stripExtension(audioDl.file.name) \o S_TrimmedWav,
                      [type |-> "audio/wav", src |-> audioDl.file,
                       buffer |-> trimmedBuffer(decodeAudioData(audioDl.file),
                                                audioDl.trimStart, audioDl.trimEnd)])
          /\ audioToast' = "Trimmed audio downloaded"
     ELSE /\ audioToast' = "Failed to trim audio"
          /\ UNCHANGED <<urlVars, saved>>
  /\ audioProcessing' = FALSE
  /\ audioDl' = NoAudioDl
  /\ UNCHANGED <<audioFile, audioUrl, wavesurfer, audioLoading, loads, started>>
  /\ UNCHANGED trimVars

(***************************************************************************)
(* The WAV serializer of the audio tool: audioBufferToWav.                 *)
(***************************************************************************)
\* the frames of the buffers handed to audioBufferToWav
MaxFrames == 2

VARIABLES
  wavIn,    \* the AudioBuffer handed to audioBufferToWav, or Null
  wavOut    \* the bytes of the ArrayBuffer it returned, or Null

wavVars == <<wavIn, wavOut>>

WavIdle ==
  /\ wavIn = Null
  /\ wavOut = Null

\* the sample rates and channel counts of the buffers
SampleRates == {8000, 44100, 96000}
ChannelCounts == {1, 2}
\* the float samples of the buffers, in thousandths: 1500 is 1.5
SampleValues == {-1500, -500, 1000}

\* DataView.setUint8 takes its value modulo 2^8; setUint16 and setUint32 with
\* littleEndian = true write the low 2 and 4 bytes of theirs, lowest first
Uint8(n) == n % 256
Uint16LE(n) == <<Uint8(n), Uint8(n \div 256)>>
Uint32LE(n) ==
  <<Uint8(n), Uint8(n \div 256), Uint8(n \div 65536), Uint8(n \div 16777216)>>

\* String.prototype.charCodeAt for the characters of the four tags
charCodeAt(c) ==
  CASE c = "R" -> 82 [] c = "I" -> 73 [] c = "F" -> 70 [] c = "W" -> 87
    [] c = "A" -> 65 [] c = "V" -> 86 [] c = "E" -> 69 [] c = "f" -> 102
    [] c = "m" -> 109 [] c = "t" -> 116 [] c = " " -> 32 [] c = "d" -> 100
    [] c = "a" -> 97

\* writeString: one byte per character
writeString(string) == [i \in 1..Len(string) |-> Uint8(charCodeAt(string[i]))]

\* Math.max(-1, Math.min(1, x)), in thousandths
Clamp(x) == IF x < -1000 THEN -1000 ELSE IF x > 1000 THEN 1000 ELSE x

\* the quotient rounded towards zero, as the conversion to an integer does
TruncDiv(a, b) == IF a >= 0 THEN a \div b ELSE -((-a) \div b)

\* DataView.setInt16(offset, sample < 0 ? sample * 0x8000 : sample * 0x7fff, true):
\* the product is truncated and taken modulo 2^16 in two's complement
Int16LE(x) ==
  LET sample == Clamp(x)
      scaled == IF sample < 0 THEN TruncDiv(sample * 32768, 1000)
                ELSE TruncDiv(sample * 32767, 1000)
  IN Uint16LE((scaled + 65536) % 65536)

\* the interleaved samples from frame i on
RECURSIVE PcmFrom(_, _)
PcmFrom(buffer, i) ==
  IF i > buffer.length THEN << >>
  ELSE LET frame(ch) == Int16LE(buffer.channelData[ch][i])
           RECURSIVE Channels(_)
           Channels(ch) ==
             IF ch > buffer.numberOfChannels THEN << >>
             ELSE frame(ch) \o Channels(ch + 1)
       IN Channels(1) \o PcmFrom(buffer, i + 1)

\* mutant: the sizes of the header leave the channel count out
audioBufferToWavMonoSizes(buffer) ==
  LET length == buffer.length
      numberOfChannels == buffer.numberOfChannels
      sampleRate == buffer.sampleRate
  IN writeString(<<"R","I","F","F">>) \o Uint32LE(36 + length * 2)
       \o writeString(<<"W","A","V","E">>) \o writeString(<<"f","m","t"," ">>)
       \o Uint32LE(16) \o Uint16LE(1) \o Uint16LE(numberOfChannels)
       \o Uint32LE(sampleRate) \o Uint32LE(sampleRate * 2)
       \o Uint16LE(numberOfChannels * 2) \o Uint16LE(16)
       \o writeString(<<"d","a","t","a">>) \o Uint32LE(length * 2)
       \o PcmFrom(buffer, 1)

\* audioBufferToWav: the 44 bytes of the header, then the samples
audioBufferToWav(buffer) ==
  LET length == buffer.length
      numberOfChannels == buffer.numberOfChannels
      sampleRate == buffer.sampleRate
  IN writeString(<<"R","I","F","F">>) \o Uint32LE(36 + length * numberOfChannels * 2)
       \o writeString(<<"W","A","V","E">>) \o writeString(<<"f","m","t"," ">>)
       \o Uint32LE(16) \o Uint16LE(1) \o Uint16LE(numberOfChannels)
       \o Uint32LE(sampleRate) \o Uint32LE(sampleRate * numberOfChannels * 2)
       \o Uint16LE(numberOfChannels * 2) \o Uint16LE(16)
       \o writeString(<<"d","a","t","a">>) \o Uint32LE(length * numberOfChannels * 2)
       \o PcmFrom(buffer, 1)

\* the buffers the serializer is called on
AudioBuffers ==
  UNION { { [length |-> l, numberOfChannels |-> c, sampleRate |-> r, channelData |-> d] :
              d \in [1..c -> [1..l -> SampleValues]] } :
          l \in 0..MaxFrames, c \in ChannelCounts, r \in SampleRates }

WavInit ==
  /\ wavIn \in AudioBuffers
  /\ wavOut = Null

\* one call of audioBufferToWav
WavCall ==
  /\ wavOut = Null
  /\ wavOut' = [bytes |-> audioBufferToWav(wavIn)]
  /\ UNCHANGED wavIn

(***************************************************************************)
(* The upload surface as the three tools use it: each passes its accept    *)
(* list and an onError, and none passes maxSize.                           *)
(***************************************************************************)
S_ImageJpg == <<"i","m","a","g","e","/","j","p","g">>
S_DotPdf == <<".","p","d","f">>
S_AudioWav == <<"a","u","d","i","o","/","w","a","v">>
S_AudioOgg == <<"a","u","d","i","o","/","o","g","g">>
S_AudioMp4 == <<"a","u","d","i","o","/","m","p","4">>
S_DotMp3 == <<".","m","p","3">>
S_DotWav == <<".","w","a","v">>
S_DotOgg == <<".","o","g","g">>
S_DotM4a == <<".","m","4","a">>

ImageAccept == <<S_ImageJpeg, S_ImageJpg, S_ImagePng, S_ImageWebp>>
PdfAccept == <<S_ApplicationPdf, S_DotPdf>>
AudioAccept ==
  <<S_AudioMpeg, S_AudioWav, S_AudioOgg, S_AudioMp4, S_DotMp3, S_DotWav, S_DotOgg, S_DotM4a>>

\* the accept list of the FileUpload of the tool behind a tab
ToolAccept(t) ==
  CASE t = "image" -> ImageAccept
    [] t = "pdf" -> PdfAccept
    [] t = "audio" -> AudioAccept

\* the files dropped on the tool behind a tab: one of its type at the 10MB
\* limit, one of its type a byte over it, and a small one of another type
ToolFiles(t) ==
  CASE t = "image" ->
         { [name |-> N_APng, type |-> S_ImagePng, size |-> MAX_FILE_SIZE],
           [name |-> N_APng, type |-> S_ImagePng, size |-> MAX_FILE_SIZE + 1],
           [name |-> N_DocPdf, type |-> S_ApplicationPdf, size |-> 1000] }
    [] t = "pdf" ->
         { [name |-> N_DocPdf, type |-> S_ApplicationPdf, size |-> MAX_FILE_SIZE],
           [name |-> N_DocPdf, type |-> S_ApplicationPdf, size |-> MAX_FILE_SIZE + 1],
           [name |-> N_SongMp3, type |-> S_AudioMpeg, size |-> 5000] }
    [] t = "audio" ->
         { [name |-> N_SongMp3, type |-> S_AudioMpeg, size |-> MAX_FILE_SIZE],
           [name |-> N_SongMp3, type |-> S_AudioMpeg, size |-> MAX_FILE_SIZE + 1],
           [name |-> N_APng, type |-> S_ImagePng, size |-> 5] }

\* the FileUpload of the tool shown, before any file is dropped
ToolUploadInit ==
  /\ upPool = ToolFiles(tab)
  /\ accept = ToolAccept(tab)
  /\ maxSize = 10 * 1024 * 1024
  /\ hasOnError = TRUE
  /\ disabled = FALSE
  /\ upProcessing = FALSE
  /\ fileArray = << >>
  /\ idx = 0
  /\ validFiles = << >>
  /\ errors = << >>
  /\ validated = << >>
  /\ selectedCalls = << >>
  /\ errorCalls = << >>
  /\ batchNo = 0

(***************************************************************************)
(* Specifications.  Each one runs one component; the variables of the      *)
(* other components stay at their state after construction.                *)
(***************************************************************************)
ValidateIdle ==
  /\ vcall = [called |-> FALSE]
  /\ vresult = NoResult

UploadIdle ==
  /\ upPool = {}
  /\ accept = << >>
  /\ maxSize = MAX_FILE_SIZE
  /\ hasOnError = FALSE
  /\ disabled = FALSE
  /\ upProcessing = FALSE
  /\ fileArray = << >>
  /\ idx = 0
  /\ validFiles = << >>
  /\ errors = << >>
  /\ validated = << >>
  /\ selectedCalls = << >>
  /\ errorCalls = << >>
  /\ batchNo = 0

ImageIdle == ImageInit /\ pool = {}

\* the tools behind the tabs before any of them is used
ToolsIdle == DlIdle /\ PdfIdle /\ AudioIdle /\ WavIdle

otherVars == <<dlVars, pdfVars, audioVars, wavVars>>

vars ==
  <<validateVars, uploadVars, urlVars, imageVars, dlVars, pdfVars, audioVars, wavVars>>

\* the Validator alone: every call of validateFile on the inputs of ValidateInit
InitValidate ==
  /\ ValidateInit /\ UploadIdle /\ UrlIdle /\ ImageIdle
  /\ ToolsIdle /\ tab = "image"
NextValidate == ValidateCall /\ UNCHANGED <<uploadVars, urlVars, imageVars, otherVars>>
SpecValidate == InitValidate /\ [][NextValidate]_vars

\* the upload surface
InitUpload ==
  /\ UploadInit /\ ValidateIdle /\ UrlIdle /\ ImageIdle
  /\ ToolsIdle /\ tab = "image"
UploadFrame == UNCHANGED <<validateVars, urlVars, imageVars, otherVars>>
NextUpload ==
  \/ handleDrop /\ UploadFrame
  \/ handleFileInputChange /\ UploadFrame
  \/ LoopNext /\ UploadFrame
  \/ LoopEnd /\ UploadFrame
SpecUpload == InitUpload /\ [][NextUpload]_vars

\* the image tool: its list, its settings, processing and the live preview
InitImage ==
  /\ ImageInit /\ pool = {PngFile, CorruptFile}
  /\ UrlIdle /\ ValidateIdle /\ UploadIdle
  /\ ToolsIdle /\ tab = "image"
ImageFrame == UNCHANGED <<validateVars, uploadVars, otherVars>>
NextImage ==
  \/ handleFilesSelected /\ ImageFrame
  \/ setQuality /\ ImageFrame
  \/ setUseCustomSize /\ ImageFrame
  \/ setWidth /\ ImageFrame
  \/ removeImage /\ ImageFrame
  \/ clearAll /\ ImageFrame
  \/ handleProcess /\ ImageFrame
  \/ ProcessImageResolves /\ ImageFrame
  \/ ProcessImageRejects /\ ImageFrame
  \/ PreviewTimerFires /\ ImageFrame
  \/ PreviewCalcCompletes /\ ImageFrame
  \/ PreviewCleanupFires /\ ImageFrame
  \/ Unmount /\ ImageFrame
SpecImage == InitImage /\ [][NextImage]_vars

\* the image tool's batch processing alone: uploads, removals and the promises
\* of handleProcess in every order; the preview timers are left pending
InitProcess ==
  /\ ImageInit /\ pool = {PngFile, JpegFile}
  /\ UrlIdle /\ ValidateIdle /\ UploadIdle
  /\ ToolsIdle /\ tab = "image"
NextProcess ==
  \/ handleFilesSelected /\ ImageFrame
  \/ setQuality /\ ImageFrame
  \/ removeImage /\ ImageFrame
  \/ handleProcess /\ ImageFrame
  \/ ProcessImageResolves /\ ImageFrame
  \/ ProcessImageRejects /\ ImageFrame
SpecProcess == InitProcess /\ [][NextProcess]_vars

\* the downloads of the three tools; the tab shown is chosen once
InitExport ==
  /\ tab \in {"image", "pdf", "audio"}
  /\ ImageInit /\ pool = {PngFile, JpegFile}
  /\ DlIdle /\ PdfIdle /\ AudioIdle /\ WavIdle
  /\ UrlIdle /\ ValidateIdle /\ UploadIdle
ImageTabFrame == UNCHANGED <<validateVars, uploadVars, pdfVars, audioVars, wavVars>>
PdfTabFrame ==
  UNCHANGED <<validateVars, uploadVars, imageVars, audioVars, wavVars, tab, dlAll>>
AudioTabFrame ==
  UNCHANGED <<validateVars, uploadVars, imageVars, wavVars, tab, dlAll,
              pdfFile, pages, pdfProcessing, export, pdfToast>>
NextExport ==
  \/ tab = "image" /\ handleFilesSelected /\ UNCHANGED dlVars /\ ImageTabFrame
  \/ tab = "image" /\ removeImage /\ UNCHANGED dlVars /\ ImageTabFrame
  \/ tab = "image" /\ handleProcess /\ UNCHANGED dlVars /\ ImageTabFrame
  \/ tab = "image" /\ Unmount /\ UNCHANGED dlVars /\ ImageTabFrame
  \/ tab = "image" /\ handleDownloadAll /\ ImageTabFrame
  \/ tab = "image" /\ DownloadTimerFires /\ ImageTabFrame
  \/ tab = "pdf" /\ loadPDF /\ PdfTabFrame
  \/ tab = "pdf" /\ togglePageSelection /\ PdfTabFrame
  \/ tab = "pdf" /\ selectAll /\ PdfTabFrame
  \/ tab = "pdf" /\ deselectAll /\ PdfTabFrame
  \/ tab = "pdf" /\ handleExport /\ PdfTabFrame
  \/ tab = "pdf" /\ ExportFileRead /\ PdfTabFrame
  \/ tab = "pdf" /\ ExportRenderPage /\ PdfTabFrame
  \/ tab = "pdf" /\ ExportGenerate /\ PdfTabFrame
  \/ tab = "audio" /\ Audio_handleFilesSelected /\ AudioTabFrame
  \/ tab = "audio" /\ WaveSurferSettles /\ AudioTabFrame
  \/ tab = "audio" /\ Audio_handleDownload /\ AudioTabFrame
  \/ tab = "audio" /\ AudioDecodeSettles /\ AudioTabFrame
SpecExport == InitExport /\ [][NextExport]_vars

\* the WAV serializer alone: one call on each buffer of AudioBuffers
InitWav ==
  /\ WavInit
  /\ ValidateIdle /\ UploadIdle /\ UrlIdle /\ ImageIdle
  /\ DlIdle /\ PdfIdle /\ AudioIdle /\ tab = "audio"
NextWav ==
  WavCall /\ UNCHANGED <<validateVars, uploadVars, urlVars, imageVars, dlVars, pdfVars, audioVars>>
SpecWav == InitWav /\ [][NextWav]_vars

\* the image tool at work on its settings: uploads, the quality slider, the
\* Custom Size switch, processing and the timers of the preview effect; the
\* preview calculations of the re-encoding path are left in flight
InitSettings ==
  /\ ImageInit /\ pool = {PngFile}
  /\ UrlIdle /\ ValidateIdle /\ UploadIdle
  /\ ToolsIdle /\ tab = "image"
NextSettings ==
  \/ handleFilesSelected /\ ImageFrame
  \/ setQuality /\ ImageFrame
  \/ setUseCustomSize /\ ImageFrame
  \/ handleProcess /\ ImageFrame
  \/ ProcessImageResolves /\ ImageFrame
  \/ PreviewTimerFires /\ ImageFrame
  \/ PreviewCleanupFires /\ ImageFrame
SpecSettings == InitSettings /\ [][NextSettings]_vars

\* the upload surface of the three tools; the tab shown is chosen once
InitToolUpload ==
  /\ tab \in {"image", "pdf", "audio"}
  /\ ToolUploadInit
  /\ ValidateIdle /\ UrlIdle /\ ImageIdle
  /\ DlIdle /\ PdfIdle /\ AudioIdle /\ WavIdle
NextToolUpload ==
  \/ handleDrop /\ UploadFrame
  \/ handleFileInputChange /\ UploadFrame
  \/ LoopNext /\ UploadFrame
  \/ LoopEnd /\ UploadFrame
SpecToolUpload == InitToolUpload /\ [][NextToolUpload]_vars

\* the audio tool alone: loads, the events of its WaveSurfer instances, the
\* transport buttons, the trim sliders and handles, and the unmount
InitAudio ==
  /\ AudioIdle /\ tab = "audio"
  /\ DlIdle /\ PdfIdle /\ WavIdle
  /\ UrlIdle /\ ValidateIdle /\ UploadIdle /\ ImageIdle
NextAudio ==
  \/ Audio_handleFilesSelected /\ AudioTabFrame
  \/ WaveSurferSettles /\ AudioTabFrame
  \/ WaveSurferPlayback /\ AudioTabFrame
  \/ WaveSurferLateEvent /\ AudioTabFrame
  \/ handlePlay /\ AudioTabFrame
  \/ handleStop /\ AudioTabFrame
  \/ handleTrimStartChange /\ AudioTabFrame
  \/ handleTrimEndChange /\ AudioTabFrame
  \/ handleMouseDown /\ AudioTabFrame
  \/ handleMouseMove /\ AudioTabFrame
  \/ handleMouseUp /\ AudioTabFrame
  \/ Audio_Unmount /\ AudioTabFrame
SpecAudio == InitAudio /\ [][NextAudio]_vars

\* the image tool from upload to download: the quality slider, a processing
\* run and the downloads of its results
InitDownload ==
  /\ ImageInit /\ pool = {PngFile, JpegFile}
  /\ UrlIdle /\ ValidateIdle /\ UploadIdle
  /\ ToolsIdle /\ tab = "image"
NextDownload ==
  \/ handleFilesSelected /\ UNCHANGED dlVars /\ ImageTabFrame
  \/ setQuality /\ UNCHANGED dlVars /\ ImageTabFrame
  \/ handleProcess /\ UNCHANGED dlVars /\ ImageTabFrame
  \/ ProcessImageResolves /\ UNCHANGED dlVars /\ ImageTabFrame
  \/ handleDownloadAll /\ ImageTabFrame
  \/ DownloadTimerFires /\ ImageTabFrame
SpecDownload == InitDownload /\ [][NextDownload]_vars

\* the audio tool from load to download: the waveform, the trim sliders and
\* the export of the trimmed range
InitTrim ==
  /\ AudioIdle /\ tab = "audio"
  /\ DlIdle /\ PdfIdle /\ WavIdle
  /\ UrlIdle /\ ValidateIdle /\ UploadIdle /\ ImageIdle
NextTrim ==
  \/ Audio_handleFilesSelected /\ AudioTabFrame
  \/ WaveSurferSettles /\ AudioTabFrame
  \/ handleTrimStartChange /\ AudioTabFrame
  \/ handleTrimEndChange /\ AudioTabFrame
  \/ Audio_handleDownload /\ AudioTabFrame
  \/ AudioDecodeSettles /\ AudioTabFrame
SpecTrim == InitTrim /\ [][NextTrim]_vars

(***************************************************************************)
(* Claims about the Validator (SpecValidate).                              *)
(***************************************************************************)
Returned == vresult # NoResult

IsSizeError(r) == ~r.valid /\ r.error[1] = "File size exceeds "

\* C1: validateFile rejects every file whose size is strictly greater than
\* maxSize, whatever its type and name, and with the size error even when the
\* type is disallowed too; a file whose size equals maxSize is not rejected for
\* its size.
C1_SizeCheckedFirst ==
  Returned =>
    /\ vcall.file.size > vcall.maxSize => IsSizeError(vresult)
    /\ vcall.file.size <= vcall.maxSize => ~IsSizeError(vresult)

\* C1's case: a file over the bound whose type and extension are not allowed
C1_Witness ==
  /\ Returned
  /\ vcall.file.size > vcall.maxSize
  /\ ~isValidType(vcall.file, vcall.allowedTypes)
  /\ IsSizeError(vresult)

\* C1's other case: a file of exactly maxSize bytes passes
C1_WitnessAtBound ==
  /\ Returned
  /\ vcall.file.size = vcall.maxSize
  /\ vresult.valid

\* the filename extension: the name from its last "." on, or nothing
FilenameExtension(n) ==
  LET dots == {k \in 1..Len(n) : n[k] = "."}
  IN IF dots = {} THEN << >>
     ELSE SubSeq(n, CHOOSE k \in dots : \A j \in dots : j <= k, Len(n))

\* the declared MIME type is one of the allowed entries, case-insensitively
TypeIsAllowedEntry(file, allowedTypes) ==
  \E k \in 1..Len(allowedTypes) :
    toLowerCase(file.type) = toLowerCase(allowedTypes[k])

\* the filename extension is one of the allowed entries, case-insensitively
ExtensionIsAllowedEntry(file, allowedTypes) ==
  \E k \in 1..Len(allowedTypes) :
    toLowerCase(FilenameExtension(file.name)) = toLowerCase(ExtensionOf(allowedTypes[k]))

\* C2: for a file within the size bound, validateFile returns valid if and only
\* if the declared MIME type is one of the allowed entries or the filename
\* extension is one of the allowed entries, case-insensitively.
C2_AcceptsExactlyTheConfiguredSet ==
  (Returned /\ vcall.file.size <= vcall.maxSize) =>
    (vresult.valid <=>
       \/ TypeIsAllowedEntry(vcall.file, vcall.allowedTypes)
       \/ ExtensionIsAllowedEntry(vcall.file, vcall.allowedTypes))

\* C3: validateFile is total: for every file, allowed-type list (the empty one
\* included) and maxSize it returns, and what it returns is either valid with no
\* error or invalid with a non-empty error message.
C3_TotalAndWellFormed ==
  /\ ~Returned => ENABLED ValidateCall
  /\ Returned =>
       \/ vresult.valid /\ DOMAIN vresult = {"valid"}
       \/ /\ ~vresult.valid
          /\ DOMAIN vresult = {"valid", "error"}
          /\ Len(vresult.error) > 0
          /\ vresult.error[1] # ""

\* C3's case: the empty allowed-type list
C3_Witness ==
  /\ Returned
  /\ vcall.allowedTypes = << >>
  /\ vcall.file.size <= vcall.maxSize
  /\ ~vresult.valid
  /\ Len(vresult.error) > 0

(***************************************************************************)
(* Claims about the upload surface (SpecUpload).                           *)
(***************************************************************************)
BatchDone == batchNo > 0 /\ ~upProcessing

IsAccepted(f) == validateFile(f, accept, maxSize).valid

AcceptedOf(files) == SelectSeq(files, IsAccepted)

IsRejected(f) == ~IsAccepted(f)

RejectedOf(files) == SelectSeq(files, IsRejected)

\* C4: FileUpload validates every file of a batch exactly once, in order, and
\* then passes to onFilesSelected exactly the accepted files, in their original
\* order, in one call; no call is made before the batch ends, and none at all
\* when no file of the batch is valid.
C4_AcceptedFilesReachCallbackOnce ==
  /\ upProcessing =>
       /\ validated = SubSeq(fileArray, 1, idx + 1)
       /\ selectedCalls = << >>
  /\ BatchDone =>
       /\ validated = fileArray
       /\ selectedCalls = IF AcceptedOf(fileArray) = << >>
                          THEN << >>
                          ELSE <<AcceptedOf(fileArray)>>

\* C4's case: a finished batch of three files, the middle one rejected
C4_Witness ==
  /\ BatchDone
  /\ Len(fileArray) = 3
  /\ IsAccepted(fileArray[1]) /\ IsRejected(fileArray[2]) /\ IsAccepted(fileArray[3])
  /\ fileArray[1] # fileArray[3]
  /\ selectedCalls = << <<fileArray[1], fileArray[3]>> >>

\* C4's other case: a finished batch with no valid file
C4_WitnessNoneValid ==
  /\ BatchDone
  /\ AcceptedOf(fileArray) = << >>
  /\ selectedCalls = << >>

\* '<name>: <reason>' of every file of the sequence
RECURSIVE ReportLines(_)
ReportLines(files) ==
  IF files = << >> THEN << >>
  ELSE <<Head(files).name \o <<":", " ">>
           \o validateFile(Head(files), accept, maxSize).error>>
       \o ReportLines(Tail(files))

ProcessSettled ==
  /\ process.state \in {"resolved", "rejected"}
  /\ \A k \in DOMAIN process.results : process.results[k] # Pending

\* the image of the list with the given id
ImageWithId(id) == CHOOSE img \in {images[j] : j \in 1..Len(images)} : img.id = id

ImageIds == {images[j].id : j \in 1..Len(images)}

\* C6: in handleProcess an image whose processing fails is reported and
\* skipped while the pipeline continues: every other image of the batch whose
\* processing succeeds is in the images list with its processedBlob and
\* processedSize set (as long as the user has not removed it).
C6_OtherImagesStillProcessed ==
  ProcessSettled =>
    \A k \in DOMAIN process.results :
      (process.results[k] # Failed /\ process.images[k].id \in ImageIds) =>
        /\ ImageWithId(process.images[k].id).processedBlob = process.results[k]
        /\ ImageWithId(process.images[k].id).processedSize = process.results[k].size

\* a step in which Promise.all resolves and handleProcess commits its result
ProcessResolvesStep == process' # process /\ process'.state = "resolved" /\ mounted

\* C8: after a successful handleProcess the images list holds the same image
\* ids in the same order as when it started, each paired with the blob made
\* from its own file, in whatever order the processImage promises completed.
C8_ResultOrderedByInput ==
  [][ProcessResolvesStep =>
       /\ Ids(images') = Ids(process'.images)
       /\ \A k \in 1..Len(images') :
            /\ images'[k].file = process'.images[k].file
            /\ images'[k].processedBlob = process'.results[k]
            /\ images'[k].processedSize = process'.results[k].size
            /\ IF Bypass(process'.settings)
               THEN images'[k].processedBlob = images'[k].file
               ELSE images'[k].processedBlob.src = images'[k].file]_vars

\* C8's case: two images of different files, the second completed first, and
\* the list still in input order, each image with the blob of its own file
C8_Witness ==
  /\ process.state = "resolved"
  /\ process.order = <<2, 1>>
  /\ Len(images) = 2
  /\ Ids(images) = Ids(process.images)
  /\ images[1].file # images[2].file
  /\ images[1].processedBlob.src = images[1].file
  /\ images[2].processedBlob.src = images[2].file

(***************************************************************************)
(* Claims about the image tool's object URLs (SpecImage).                  *)
(***************************************************************************)
\* nothing is pending: no timer, no calculation, no promise
Quiescent ==
  /\ previewTimer = Null
  /\ calcs = {}
  /\ cleanups = {}
  /\ process.state = "none" \/ ProcessSettled

\* the preview and resized-preview URLs the tool has created
PreviewUrls == {u \in created : u.kind \in {"preview", "resized"}}

\* the URLs the mounted tool still refers to
ReferencedUrls ==
  IF mounted
  THEN {images[k].preview : k \in 1..Len(images)} \cup MapValues(resizedPreviews)
  ELSE {}

\* C10: every preview URL and resized-preview URL the tool creates is revoked
\* once nothing refers to it any more: when no timer, calculation or promise is
\* pending, no unreferenced URL is left unrevoked.
C10_NoUnreferencedUrlLeftLive ==
  Quiescent => \A u \in PreviewUrls \ revoked : u \in ReferencedUrls

(***************************************************************************)
(* Claims about the exports and downloads (SpecExport).                    *)
(***************************************************************************)
ExportFinished == export.state \in {"done", "failed"}

\* the ZIP entries of the pages of a selection that did not fail, in order
RECURSIVE RenderedEntries(_, _)
RenderedEntries(selected, failed) ==
  IF selected = << >> THEN << >>
  ELSE IF Head(selected) \in failed
       THEN RenderedEntries(Tail(selected), failed)
       ELSE <<[name |-> PageFileName(Head(selected)), page |-> Head(selected)]>>
              \o RenderedEntries(Tail(selected), failed)

N_DocPagesZip == <<"d","o","c","_","p","a","g","e","s",".","p","n","g",".","z","i","p">>
N_Page1Png == <<"p","a","g","e","-","1",".","p","n","g">>
N_Page3Png == <<"p","a","g","e","-","3",".","p","n","g">>

\* C7: in handleExport a selected page that fails to render is reported and
\* skipped and the export goes on: unless reading the file or generating the
\* ZIP itself fails, the export ends with every selected page that rendered in
\* the ZIP as page-<pageNumber>.png, the ZIP downloaded, a toast for each
\* failed page, and isProcessing false again.
C7_FailedPageSkippedExportContinues ==
  /\ ExportFinished => ~pdfProcessing
  /\ (ExportFinished /\ export.threw \notin {"arrayBuffer", "generateAsync"}) =>
       /\ export.state = "done"
       /\ export.zip = RenderedEntries(export.selected, export.failed)
       /\ \A p \in export.failed :
            \E k \in 1..Len(export.toasts) :
              export.toasts[k] = ToastN("Failed to render page", p)
       /\ saved # << >>
       /\ saved[Len(saved)].blob.entries = export.zip
       /\ saved[Len(saved)].name = stripExtension(export.file.name) \o S_PagesZip
       /\ \E k \in 1..Len(dlLog) : dlLog[k] = <<"click", saved[Len(saved)].url>>

\* C7's case: three pages selected, the second failed, the other two in the
\* ZIP that was downloaded
C7_Witness ==
  /\ export.state = "done"
  /\ export.selected = <<1, 2, 3>>
  /\ export.failed = {2}
  /\ Len(export.zip) = 2
  /\ export.zip[1].name = N_Page1Png
  /\ export.zip[2].name = N_Page3Png
  /\ saved # << >>
  /\ saved[Len(saved)].name = N_DocPagesZip
  /\ saved[Len(saved)].blob.entries = export.zip
  /\ ~pdfProcessing

\* the object URLs made for a download
DownloadUrls == {u \in created : u.kind = "download"}

\* the places of a step on a URL in the download log
StepsOf(step, url) == {k \in 1..Len(dlLog) : dlLog[k] = <<step, url>>}

\* C9: every download of the three tools goes create object URL -> click ->
\* revoke: each URL made for a result blob is clicked once after it is made and
\* revoked after the click, within the handler's synchronous block, so that no
\* download URL is live once a handler has returned.
C9_CreateClickRevoke ==
  /\ \A u \in DownloadUrls :
       /\ u \in revoked
       /\ \E i \in StepsOf("create", u), j \in StepsOf("click", u),
             k \in StepsOf("revoke", u) : i < j /\ j < k
       /\ Cardinality(StepsOf("click", u)) = 1
       /\ \E k \in 1..Len(saved) : saved[k].url = u
  /\ \A k \in 1..Len(saved) : saved[k].url \in DownloadUrls
  /\ \A k \in 1..Len(dlLog) : dlLog[k][2] \in DownloadUrls

\* C9's case in the image tool: a Download All loop that has saved two images
\* and returned
C9_Witness ==
  /\ tab = "image"
  /\ Len(saved) = 2
  /\ dlAll = {}
  /\ saved[1].url # saved[2].url
  /\ {saved[1].url, saved[2].url} \subseteq revoked

\* C9's case in the PDF tool: an export that has downloaded its ZIP
C9_WitnessPdf ==
  /\ tab = "pdf"
  /\ export.state = "done"
  /\ saved # << >>
  /\ saved[Len(saved)].url \in revoked

\* C9's case in the audio tool: a trimmed WAV that was downloaded
C9_WitnessAudio ==
  /\ tab = "audio"
  /\ audioDl = NoAudioDl
  /\ ~audioProcessing
  /\ saved # << >>
  /\ saved[Len(saved)].url \in revoked
(***************************************************************************)
(* Claims about the WAV serializer (SpecWav).                              *)
(***************************************************************************)
\* what a reader of the file gets with getUint16 and getUint32, little-endian
getUint16(bytes, offset) == bytes[offset + 1] + 256 * bytes[offset + 2]
getUint32(bytes, offset) ==
  bytes[offset + 1] + 256 * bytes[offset + 2] + 65536 * bytes[offset + 3]
    + 16777216 * bytes[offset + 4]

\* the frames a reader finds: the data size over the block align
FramesRead(bytes) == getUint32(bytes, 40) \div getUint16(bytes, 32)

\* C11: audioBufferToWav round-trips sample count and sample rate: for a
\* buffer of L frames, C channels and rate R the output has 44 + 2*L*C bytes
\* and its header stores channels C, sample rate R, byte rate 2*R*C, block
\* align 2*C, 16 bits per sample, RIFF size 36 + 2*L*C and data size 2*L*C, so
\* that a reader recovers L frames and rate R.
C11_WavHeaderRoundTrips ==
  wavOut # Null =>
    LET bytes == wavOut.bytes
        L == wavIn.length
        C == wavIn.numberOfChannels
        R == wavIn.sampleRate
    IN /\ Len(bytes) = 44 + 2 * L * C
       /\ \A k \in 1..Len(bytes) : bytes[k] \in 0..255
       /\ getUint32(bytes, 4) = 36 + 2 * L * C
       /\ getUint16(bytes, 22) = C
       /\ getUint32(bytes, 24) = R
       /\ getUint32(bytes, 28) = 2 * R * C
       /\ getUint16(bytes, 32) = 2 * C
       /\ getUint16(bytes, 34) = 16
       /\ getUint32(bytes, 40) = 2 * L * C
       /\ FramesRead(bytes) = L

\* C11's case: a stereo buffer of two frames at 44100 Hz was serialized
C11_Witness ==
  /\ wavOut # Null
  /\ wavIn.length = 2
  /\ wavIn.numberOfChannels = 2
  /\ wavIn.sampleRate = 44100
  /\ Len(wavOut.bytes) = 52
  /\ getUint32(wavOut.bytes, 24) = 44100
  /\ FramesRead(wavOut.bytes) = 2
(***************************************************************************)
(* Claims about the image tool at full quality (SpecSettings).             *)
(***************************************************************************)
\* quality 100 and no resize requested: custom size off, or on with both
\* fields empty
NoTransform(st) ==
  /\ st.quality = 100
  /\ \/ ~st.useCustomSize
     \/ st.width = 0 /\ st.height = 0

\* a step in which the debounce timer of the preview effect fires
PreviewTimerStep ==
  /\ mounted /\ mounted'
  /\ previewTimer # Null /\ previewTimer' = Null
  /\ UNCHANGED <<images, settings, process, runs>>

\* C12: with quality 100 and no resize requested processImage returns the file
\* itself: handleProcess leaves every image with processedSize = originalSize
\* and the file as its blob, and the preview effect records the size of the
\* original file for every image and creates no resized preview.
C12_FullQualityKeepsTheFile ==
  [][/\ (ProcessResolvesStep /\ NoTransform(process'.settings)) =>
          \A k \in 1..Len(images') :
            /\ images'[k].processedBlob = images'[k].file
            /\ images'[k].processedSize = images'[k].originalSize
     /\ (PreviewTimerStep /\ NoTransform(previewTimer.settings)) =>
          /\ DOMAIN previewSizes' =
               {previewTimer.images[k].id : k \in 1..Len(previewTimer.images)}
          /\ \A k \in 1..Len(previewTimer.images) :
               previewSizes'[previewTimer.images[k].id] =
                 previewTimer.images[k].originalSize
          /\ resizedPreviews' = EmptyMap]_vars

\* C12's case: custom size switched on with both fields empty, the images
\* processed and their preview sizes computed
C12_Witness ==
  /\ process.state = "resolved"
  /\ process.settings.useCustomSize
  /\ NoTransform(process.settings)
  /\ Len(images) > 0
  /\ \A k \in 1..Len(images) :
       /\ images[k].processedBlob = images[k].file
       /\ images[k].processedSize = images[k].originalSize
       /\ images[k].id \in DOMAIN previewSizes
       /\ previewSizes[images[k].id] = images[k].originalSize
(***************************************************************************)
(* Claims about the upload surface of the tools (SpecToolUpload) and about *)
(* its default accept list (SpecUpload).                                   *)
(***************************************************************************)
\* the files handed to the tool's handleFilesSelected in this batch
FilesHandedOver ==
  UNION { {selectedCalls[c][k] : k \in 1..Len(selectedCalls[c])} :
          c \in 1..Len(selectedCalls) }

\* C13: the 10MB limit is enforced in all three tools: no file larger than
\* 10 * 1024 * 1024 bytes is passed to the handleFilesSelected of the image,
\* the PDF or the audio tool, by drag-and-drop or by the file picker.
C13_NoFileOverTenMegabytes ==
  \A f \in FilesHandedOver : f.size <= 10 * 1024 * 1024

\* C13's case: a batch of a file at the limit and one a byte over it, both of
\* the tool's type, has ended and only the first was handed over
C13_Witness ==
  /\ BatchDone
  /\ Len(fileArray) = 2
  /\ fileArray[1].size = 10 * 1024 * 1024
  /\ fileArray[2].size = 10 * 1024 * 1024 + 1
  /\ fileArray[2].type = fileArray[1].type
  /\ selectedCalls = << <<fileArray[1]>> >>
  /\ Len(errorCalls) = 1

\* C14: a FileUpload without an accept list (accept = [], the default)
\* accepts all file types: every file of a batch within the size bound is
\* passed to onFilesSelected and none is rejected for its type.
C14_EmptyAcceptAcceptsAllTypes ==
  (accept = << >> /\ BatchDone) =>
    \A k \in 1..Len(fileArray) :
      fileArray[k].size <= maxSize => fileArray[k] \in FilesHandedOver
(***************************************************************************)
(* Claims about concurrency in the image tool's handleProcess              *)
(* (SpecProcess).                                                          *)
(***************************************************************************)
\* the images of the running batch whose processImage has started and has
\* not finished
BeingProcessed == {k \in DOMAIN process.results : process.results[k] = Pending}

\* C15: images of a batch are processed sequentially: the processing of the
\* next image starts only after the previous one has finished, so at most
\* one image is being processed at any time.
C15_OneImageAtATime ==
  process.state = "running" => Cardinality(BeingProcessed) <= 1

\* C20: changes made to the image list while handleProcess is in flight
\* survive its completion: the step that commits the result leaves in the
\* list exactly the images that were in it just before (a removed image
\* stays absent, an added image stays).
C20_ListChangesSurviveProcessing ==
  [][ProcessResolvesStep => ImageIds' = ImageIds]_vars
(***************************************************************************)
(* Claims about the audio tool (SpecAudio).                                *)
(***************************************************************************)
\* a step that delivers an event of a WaveSurfer instance, or the late
\* outcome of its load, after the effect that made it has been cleaned up
LateEventStep == lateEvents' = lateEvents + 1

\* C16: state mutation of the audio tool is guarded by component lifecycle:
\* once the waveform effect has been cleaned up (unmount, or the audio file
\* replaced), no later event of that WaveSurfer instance and no late
\* completion of its load changes duration, trimEnd, isLoading, isPlaying or
\* currentTime.
C16_CleanedUpInstanceChangesNothing ==
  [][LateEventStep =>
       UNCHANGED <<duration, trimEnd, audioLoading, isPlaying, currentTime>>]_vars

\* C16's case: the file was replaced by one of another length, the new
\* waveform is ready, and a timeupdate of the old instance has arrived since:
\* the state still shows the new file
C16_Witness ==
  /\ audioMounted
  /\ Len(instances) = 2
  /\ instances[1].file # instances[2].file
  /\ instances[2].state = "ready"
  /\ lastLate = [n |-> 1, name |-> "timeupdate", time |-> 10]
  /\ duration = instances[2].file.duration
  /\ currentTime = 0

\* C16's case at unmount: the component went away while the waveform was
\* loading and the ready event of the instance arrived afterwards
C16_WitnessUnmount ==
  /\ ~audioMounted
  /\ lastLate = [n |-> 1, name |-> "ready", time |-> 0]
  /\ audioLoading
  /\ duration = 0

\* the waveform of the loaded file is ready
AudioReady ==
  /\ audioMounted
  /\ wavesurfer # Null
  /\ instances[wavesurfer.n].state = "ready"

\* C17: once the audio is ready, 0 <= trimStart < trimEnd <= duration in
\* every reachable state, across slider changes, handle drags and the
\* loading of another audio file.
C17_TrimWindowInsideTheAudio ==
  AudioReady => (0 <= trimStart /\ trimStart < trimEnd /\ trimEnd <= duration)

\* C18: the object URL of the loaded audio file is revoked only when a new
\* file replaces it or the component unmounts: the current audioUrl is not
\* revoked while its waveform is loading or loaded.
C18_CurrentAudioUrlIsLive ==
  (/\ audioMounted
   /\ audioUrl # Null
   /\ wavesurfer # Null
   /\ instances[wavesurfer.n].state \in {"loading", "ready"})
  => audioUrl \notin revoked
(***************************************************************************)
(* Claims about the PDF tool's thumbnails (SpecExport, the PDF tab).       *)
(***************************************************************************)
\* the thumbnail URLs the page grid shows
DisplayedThumbnails == {pages[k].thumbnail : k \in 1..Len(pages)} \ {Null}

\* C19: no thumbnail URL referenced by a page of the current pages list is
\* revoked: togglePageSelection, selectAll and deselectAll leave every
\* displayed thumbnail URL live.
C19_DisplayedThumbnailsAreLive ==
  tab = "pdf" => DisplayedThumbnails \cap revoked = {}
(***************************************************************************)
(* Claims about the names of the image tool's downloads (SpecDownload).    *)
(***************************************************************************)
S_DotJpg == <<".","j","p","g">>

\* the extension of the name says what the MIME type of the content is
ExtensionMatchesType(name, type) ==
  \/ endsWith(name, S_DotPng) /\ type = S_ImagePng
  \/ endsWith(name, S_DotJpg) /\ type \in {S_ImageJpeg, S_ImageJpg}

\* C23: the suggested filename of a processed image matches its content: the
\* extension handleDownload gives the file (.png or .jpg) corresponds to the
\* MIME type in which processImage produced the blob.
C23_ExtensionMatchesBlobType ==
  \A k \in 1..Len(saved) : ExtensionMatchesType(saved[k].name, saved[k].blob.type)
(***************************************************************************)
(* Claims about the image tool's preview effect (SpecImage).               *)
(***************************************************************************)
\* the settings have stopped changing and every started preview computation
\* has completed: no debounce timer is pending and no calculation is in flight
PreviewSettled ==
  /\ mounted /\ ~isProcessing
  /\ previewTimer = Null
  /\ calcs = {}

\* what the preview computation for the bypass settings records: the size of
\* each image's own file
OwnFileSizes == [id \in ImageIds |-> ImageWithId(id).file.size]

\* C21: the image preview reflects the latest settings: once the settings
\* stop changing and every started preview computation has completed, the
\* maps hold no entry for an image that has been removed, and a computation
\* started for earlier settings has not overwritten the result of a later
\* one: under settings that leave the file as it is, previewSizes holds each
\* file's own size and resizedPreviews is empty.
C21_PreviewReflectsLatestSettings ==
  PreviewSettled =>
    /\ DOMAIN previewSizes \subseteq ImageIds
    /\ DOMAIN resizedPreviews \subseteq ImageIds
    /\ (Bypass(settings) /\ Len(images) > 0) =>
         (previewSizes = OwnFileSizes /\ resizedPreviews = EmptyMap)
(***************************************************************************)
(* Claims about the export of the trimmed audio (SpecTrim).                *)
(***************************************************************************)
\* a step in which handleDownload hands the trimmed WAV to the browser
TrimExportStep == audioDl.state = "decoding" /\ Len(saved') = Len(saved) + 1

\* C22: audio trimming exports exactly the selected sample range: with
\* startSample = floor(trimStart * sampleRate) and endSample =
\* floor(trimEnd * sampleRate) the exported buffer has endSample - startSample
\* frames, the channel count and sample rate of the decoded source, its frame
\* i of every channel is the source's frame startSample + i, and the export
\* never reads past the end of the source buffer.
C22_ExportsTheSelectedRange ==
  [][TrimExportStep =>
       LET source == decodeAudioData(audioDl.file)
           startSample == (audioDl.trimStart * source.sampleRate) \div 10
           endSample == (audioDl.trimEnd * source.sampleRate) \div 10
           exported == saved'[Len(saved')].blob.buffer
       IN /\ exported.length = endSample - startSample
          /\ exported.numberOfChannels = source.numberOfChannels
          /\ exported.sampleRate = source.sampleRate
          /\ \A channel \in 1..exported.numberOfChannels :
               \A i \in 0..(exported.length - 1) :
                 exported.data[channel][i + 1] = [channel |-> channel, i |-> startSample + i]
          /\ startSample + exported.length <= source.length]_vars
====
